---- MODULE Spec2Model ----
(***************************************************************************)
(* Finite automata (AFD) and regular grammars (GR) of automata.js:         *)
(* FiniteAutomaton, RegularGrammar, the DFA<->RG conversions and           *)
(* AutomataParser.                                                         *)
(*                                                                         *)
(* A JavaScript string is a sequence of one-character tokens, so that      *)
(* trim, split, join, length and indexing are computed character by        *)
(* character.  The token "eps" stands for the single character U+03B5.     *)
(* A JavaScript Set is a set; a Map is a sequence of entries in the Map's  *)
(* iteration order (unique keys, a re-set key keeps its place).            *)
(***************************************************************************)
EXTENDS Naturals, Integers, Sequences, FiniteSets, TLC

VARIABLES
    fa,         \* the FiniteAutomaton the caller holds
    ret,        \* what the last call returned, threw and logged
    lastAdded,  \* history: the last successful addTransition of every pair
    runs,       \* history: recognizeWord calls made so far (counted up to 2)
    rg,         \* the RegularGrammar the caller holds, or None
    afd,        \* the automaton toFiniteAutomaton returned, or None
    parser,     \* the AutomataParser the caller holds
    parsed,     \* history: the last parseFile or clear call, or None
    heap,       \* the objects and containers in memory, by address
    held        \* the addresses the caller holds, or None

vars == <<fa, ret, lastAdded, runs, rg, afd, parser, parsed, heap, held>>

\* what the automaton's own methods leave alone
grammarSide == <<rg, afd>>

\* what the methods of the automaton and of the grammar leave alone
parserSide == <<parser, parsed>>

\* what the calls on objects held by value leave alone
heapSide == <<heap, held>>

-----------------------------------------------------------------------------
(* JavaScript values and string primitives                                 *)

\* null / undefined: a value that is no string
Null == <<"null">>

\* no object: what a variable holds before a conversion has returned one
None == [none |-> TRUE]

\* the character U+03B5
EPS == "eps"

\* the characters String.prototype.trim strips, of those the texts here use
WhiteSpace == {" ", "\t", "\r", "\n"}

RECURSIVE trimStart(_)
trimStart(s) ==
    IF s # <<>> /\ Head(s) \in WhiteSpace THEN trimStart(Tail(s)) ELSE s

RECURSIVE trimEnd(_)
trimEnd(s) ==
    IF s # <<>> /\ s[Len(s)] \in WhiteSpace
    THEN trimEnd(SubSeq(s, 1, Len(s) - 1))
    ELSE s

\* String.prototype.trim
trim(s) == trimEnd(trimStart(s))

startsWith(s, p) == Len(s) >= Len(p) /\ SubSeq(s, 1, Len(p)) = p

RECURSIVE splitFrom(_, _, _)
\* the pieces of s from index `from` on: the separator is looked for from
\* left to right, and the search goes on behind each occurrence found
splitFrom(s, sep, from) ==
    LET found == {i \in from..(Len(s) - Len(sep) + 1) :
                     SubSeq(s, i, i + Len(sep) - 1) = sep}
    IN IF found = {} THEN <<SubSeq(s, from, Len(s))>>
       ELSE LET i == CHOOSE j \in found : \A k \in found : j <= k IN
            <<SubSeq(s, from, i - 1)>> \o splitFrom(s, sep, i + Len(sep))

\* String.prototype.split with a non-empty string separator
split(s, sep) == splitFrom(s, sep, 1)

RECURSIVE join(_, _)
\* Array.prototype.join
join(list, sep) ==
    IF list = <<>> THEN <<>>
    ELSE IF Len(list) = 1 THEN list[1]
    ELSE list[1] \o sep \o join(Tail(list), sep)

\* the truthiness test `!x` on a string-or-null value
falsy(x) == x = Null \/ x = <<>>

\* an Error's message: the template's kind and the values it interpolates
Message(kind, a, b) == [kind |-> kind, a |-> a, b |-> b]

NoError == Message("none", <<>>, <<>>)

\* outcome of a call: `threw` with the thrown error, the object after the
\* call (effects made before a throw included), the returned value and the
\* number of console.warn calls
Return(obj, value) ==
    [threw |-> FALSE, error |-> NoError, obj |-> obj, value |-> value, warned |-> 0]

Throw(obj, error) ==
    [threw |-> TRUE, error |-> error, obj |-> obj, value |-> Null, warned |-> 0]

-----------------------------------------------------------------------------
(* class FiniteAutomaton                                                   *)

FiniteAutomaton(name) ==
    [name |-> name,
     states |-> {},
     alphabet |-> {},
     initialState |-> Null,
     finalStates |-> {},
     transitions |-> <<>>,
     currentState |-> Null,
     executionPath |-> <<>>]

setStates(A, states) ==
    [A EXCEPT !.states = {trim(states[i]) : i \in 1..Len(states)}]

setAlphabet(A, symbols) ==
    [A EXCEPT !.alphabet = {trim(symbols[i]) : i \in 1..Len(symbols)}]

setInitialState(A, state) ==
    LET trimmedState == trim(state) IN
    IF state = Null
    THEN Throw(A, Message("TypeError", <<>>, <<>>))
    ELSE IF trimmedState \notin A.states
    THEN Throw(A, Message("EstadoInicialNoExiste", trimmedState, <<>>))
    ELSE Return([A EXCEPT !.initialState = trimmedState], Null)

RECURSIVE addFinalStates(_, _, _)
addFinalStates(A, states, i) ==
    IF i > Len(states) THEN Return(A, Null)
    ELSE LET trimmedState == trim(states[i]) IN
         IF trimmedState \notin A.states
         THEN Throw(A, Message("EstadoFinalNoExiste", trimmedState, <<>>))
         ELSE addFinalStates([A EXCEPT !.finalStates = @ \cup {trimmedState}],
                             states, i + 1)

setFinalStates(A, states) ==
    addFinalStates([A EXCEPT !.finalStates = {}], states, 1)

\* this.transitions.has(from) && this.transitions.get(from).has(sym)
hasTransition(A, from, sym) ==
    \E i \in 1..Len(A.transitions) :
        A.transitions[i].from = from /\ A.transitions[i].symbol = sym

\* this.transitions.get(from).get(sym)
getTransition(A, from, sym) ==
    LET i == CHOOSE j \in 1..Len(A.transitions) :
                 A.transitions[j].from = from /\ A.transitions[j].symbol = sym
    IN A.transitions[i].to

insertAt(seq, i, e) == SubSeq(seq, 1, i - 1) \o <<e>> \o SubSeq(seq, i, Len(seq))

\* a table that keeps the old entry of a pair next to the new one
putTransitionAppend(T, from, sym, to) ==
    Append(T, [from |-> from, symbol |-> sym, to |-> to])

\* this.transitions.get(from).set(sym, to) on the Map of Maps: an existing
\* (from, sym) entry keeps its place, a new symbol goes last among the
\* entries of `from`, a new `from` goes last
putTransition(T, from, sym, to) ==
    LET e == [from |-> from, symbol |-> sym, to |-> to]
        same == {i \in 1..Len(T) : T[i].from = from /\ T[i].symbol = sym}
        group == {i \in 1..Len(T) : T[i].from = from}
    IN IF same # {}
       THEN [i \in 1..Len(T) |-> IF i \in same THEN e ELSE T[i]]
       ELSE IF group # {}
            THEN insertAt(T, (CHOOSE i \in group : \A j \in group : j <= i) + 1, e)
            ELSE Append(T, e)

\* addTransition without the test of the target state
addTransitionLax(A, fromState, symbol, toState) ==
    LET from == trim(fromState)
        sym == trim(symbol)
        to == trim(toState)
    IN IF from \notin A.states
       THEN Throw(A, Message("EstadoOrigenNoExiste", from, <<>>))
       ELSE IF sym \notin A.alphabet
       THEN Throw(A, Message("SimboloNoEnAlfabeto", sym, <<>>))
       ELSE [Return([A EXCEPT !.transitions = putTransition(@, from, sym, to)], Null)
                EXCEPT !.warned = IF hasTransition(A, from, sym) THEN 1 ELSE 0]

addTransition(A, fromState, symbol, toState) ==
    LET from == trim(fromState)
        sym == trim(symbol)
        to == trim(toState)
    IN IF from \notin A.states
       THEN Throw(A, Message("EstadoOrigenNoExiste", from, <<>>))
       ELSE IF to \notin A.states
       THEN Throw(A, Message("EstadoDestinoNoExiste", to, <<>>))
       ELSE IF sym \notin A.alphabet
       THEN Throw(A, Message("SimboloNoEnAlfabeto", sym, <<>>))
       ELSE [Return([A EXCEPT !.transitions = putTransition(@, from, sym, to)], Null)
                EXCEPT !.warned = IF hasTransition(A, from, sym) THEN 1 ELSE 0]

RECURSIVE addTransitionList(_, _, _, _)
addTransitionList(A, transitionList, i, warned) ==
    IF i > Len(transitionList)
    THEN [Return(A, Null) EXCEPT !.warned = warned]
    ELSE LET parts == split(trim(transitionList[i]), <<",">>) IN
         IF Len(parts) # 3
         THEN [Throw(A, Message("FormatoTransicionInvalido", transitionList[i], <<>>))
                  EXCEPT !.warned = warned]
         ELSE LET r == addTransition(A, parts[1], parts[2], parts[3]) IN
              IF r.threw THEN [r EXCEPT !.warned = warned]
              ELSE addTransitionList(r.obj, transitionList, i + 1, warned + r.warned)

setTransitions(A, transitionsStr) ==
    addTransitionList(A, split(transitionsStr, <<";">>), 1, 0)

Step(state, symbol, step) == [state |-> state, symbol |-> symbol, step |-> step]

\* a reset that keeps the steps of the earlier run
resetKeepingPath(A) ==
    LET A1 == [A EXCEPT !.currentState = A.initialState] IN
    IF ~falsy(A1.currentState)
    THEN [A1 EXCEPT !.executionPath = Append(@, Step(A1.currentState, Null, 0))]
    ELSE A1

reset(A) ==
    LET A1 == [A EXCEPT !.currentState = A.initialState, !.executionPath = <<>>] IN
    IF ~falsy(A1.currentState)
    THEN [A1 EXCEPT !.executionPath = <<Step(A1.currentState, Null, 0)>>]
    ELSE A1

\* a processSymbol that looks the symbol up in the alphabet first
processSymbolAlphabetFirst(A, symbol) ==
    IF symbol \notin A.alphabet
    THEN Return(A, FALSE)
    ELSE IF falsy(A.currentState)
    THEN Throw(A, Message("NoInicializado", <<>>, <<>>))
    ELSE IF ~hasTransition(A, A.currentState, symbol)
    THEN Return(A, FALSE)
    ELSE LET nextState == getTransition(A, A.currentState, symbol) IN
         Return([A EXCEPT !.currentState = nextState,
                          !.executionPath =
                              Append(@, Step(nextState, symbol, Len(A.executionPath)))],
                TRUE)

processSymbol(A, symbol) ==
    IF falsy(A.currentState)
    THEN Throw(A, Message("NoInicializado", <<>>, <<>>))
    ELSE IF symbol \notin A.alphabet
    THEN Return(A, FALSE)
    ELSE IF ~hasTransition(A, A.currentState, symbol)
    THEN Return(A, FALSE)
    ELSE LET nextState == getTransition(A, A.currentState, symbol) IN
         Return([A EXCEPT !.currentState = nextState,
                          !.executionPath =
                              Append(@, Step(nextState, symbol, Len(A.executionPath)))],
                TRUE)

Result(word, accepted, path, error, finalState) ==
    [word |-> word, accepted |-> accepted, path |-> path, error |-> error,
     finalState |-> finalState]

RECURSIVE recognizeFromThrowing(_, _, _)
\* a loop without the catch block: the error of processSymbol leaves the call
recognizeFromThrowing(A, word, i) ==
    IF i > Len(word)
    THEN Return(A, Result(word, A.currentState \in A.finalStates, A.executionPath,
                          NoError, A.currentState))
    ELSE LET symbol == <<word[i]>>
             r == processSymbol(A, symbol)
         IN IF r.threw
            THEN r
            ELSE IF ~r.value
            THEN Return(r.obj, Result(word, FALSE, r.obj.executionPath,
                                      Message("NoHayTransicion", symbol,
                                              r.obj.currentState),
                                      Null))
            ELSE recognizeFromThrowing(r.obj, word, i + 1)

RECURSIVE recognizeFrom(_, _, _)
\* the try block of recognizeWord from index i on, and its catch block
recognizeFrom(A, word, i) ==
    IF i > Len(word)
    THEN Return(A, Result(word, A.currentState \in A.finalStates, A.executionPath,
                          NoError, A.currentState))
    ELSE LET symbol == <<word[i]>>
             r == processSymbol(A, symbol)
         IN IF r.threw
            THEN Return(r.obj, Result(word, FALSE, <<>>, r.error, Null))
            ELSE IF ~r.value
            THEN Return(r.obj, Result(word, FALSE, r.obj.executionPath,
                                      Message("NoHayTransicion", symbol,
                                              r.obj.currentState),
                                      Null))
            ELSE recognizeFrom(r.obj, word, i + 1)

\* a recognition that starts from the state the earlier run ended in
recognizeWithoutReset(A, word) == recognizeFrom(A, word, 1)

recognizeWord(A, word) == recognizeFrom(reset(A), word, 1)

getTransitionsArray(A) == A.transitions

-----------------------------------------------------------------------------
(* class FiniteAutomaton: validate                                         *)

\* a count that takes every stored transition for a pair of states x alphabet
missingByCount(A) ==
    Cardinality(A.states) * Cardinality(A.alphabet) - Len(A.transitions)

\* number of (state, symbol) pairs of states x alphabet without a transition
missingTransitions(A) ==
    Cardinality({p \in A.states \X A.alphabet : ~hasTransition(A, p[1], p[2])})

validate(A) ==
    LET errors ==
            (IF A.states = {} THEN <<Message("SinEstados", <<>>, <<>>)>> ELSE <<>>)
            \o (IF A.alphabet = {} THEN <<Message("SinAlfabeto", <<>>, <<>>)>> ELSE <<>>)
            \o (IF falsy(A.initialState)
                THEN <<Message("SinEstadoInicial", <<>>, <<>>)>> ELSE <<>>)
        warnings ==
            (IF A.finalStates = {}
             THEN <<[kind |-> "SinEstadosFinales", count |-> 0]>> ELSE <<>>)
            \o (IF missingTransitions(A) > 0
                THEN <<[kind |-> "FaltanTransiciones", count |-> missingTransitions(A)]>>
                ELSE <<>>)
    IN [isValid |-> errors = <<>>, errors |-> errors, warnings |-> warnings]

-----------------------------------------------------------------------------
(* class RegularGrammar                                                    *)

RegularGrammar(name) ==
    [name |-> name,
     nonTerminals |-> {},
     terminals |-> {},
     startSymbol |-> Null,
     productions |-> <<>>]

setNonTerminals(G, symbols) ==
    [G EXCEPT !.nonTerminals = {trim(symbols[i]) : i \in 1..Len(symbols)}]

setTerminals(G, symbols) ==
    [G EXCEPT !.terminals = {trim(symbols[i]) : i \in 1..Len(symbols)}]

setStartSymbol(G, symbol) ==
    LET trimmedSymbol == trim(symbol) IN
    IF symbol = Null
    THEN Throw(G, Message("TypeError", <<>>, <<>>))
    ELSE IF trimmedSymbol \notin G.nonTerminals
    THEN Throw(G, Message("SimboloInicialNoExiste", trimmedSymbol, <<>>))
    ELSE Return([G EXCEPT !.startSymbol = trimmedSymbol], Null)

\* this.productions.get(left).push(right), the key created on first use
pushProduction(P, left, right) ==
    IF \E i \in 1..Len(P) : P[i].left = left
    THEN [i \in 1..Len(P) |->
             IF P[i].left = left
             THEN [P[i] EXCEPT !.rights = Append(@, right)]
             ELSE P[i]]
    ELSE Append(P, [left |-> left, rights |-> <<right>>])

\* addProduction storing a right side once only
addProductionOnce(G, leftSide, rightSide) ==
    LET left == trim(leftSide)
        right == trim(rightSide)
    IN IF left \notin G.nonTerminals
       THEN Throw(G, Message("NoTerminalNoExiste", left, <<>>))
       ELSE IF \E i \in 1..Len(G.productions) :
                    /\ G.productions[i].left = left
                    /\ \E j \in 1..Len(G.productions[i].rights) :
                            G.productions[i].rights[j] = right
            THEN Return(G, Null)
            ELSE Return([G EXCEPT !.productions = pushProduction(@, left, right)], Null)

addProduction(G, leftSide, rightSide) ==
    LET left == trim(leftSide)
        right == trim(rightSide)
    IN IF left \notin G.nonTerminals
       THEN Throw(G, Message("NoTerminalNoExiste", left, <<>>))
       ELSE Return([G EXCEPT !.productions = pushProduction(@, left, right)], Null)

RECURSIVE addProductionList(_, _, _)
addProductionList(G, productionList, i) ==
    IF i > Len(productionList) THEN Return(G, Null)
    ELSE LET parts == split(trim(productionList[i]), <<"-", ">">>) IN
         IF Len(parts) # 2
         THEN Throw(G, Message("FormatoProduccionInvalido", productionList[i], <<>>))
         ELSE LET r == addProduction(G, parts[1], parts[2]) IN
              IF r.threw THEN r
              ELSE addProductionList(r.obj, productionList, i + 1)

setProductions(G, productionsStr) ==
    addProductionList(G, split(productionsStr, <<";">>), 1)

RECURSIVE productionPairs(_)
\* the (nonTerminal, production) pairs in the order the nested forEach visits
productionPairs(P) ==
    IF P = <<>> THEN <<>>
    ELSE [i \in 1..Len(P[1].rights) |-> <<P[1].left, P[1].rights[i]>>]
         \o productionPairs(Tail(P))

\* the name of the synthetic final state
finalState == <<"q", "f">>

RECURSIVE processProductions(_, _, _, _, _)
\* the productions.forEach of toFiniteAutomaton from pair i on: the automaton
\* and the finalStates array built so far
processProductions(G, automaton, finalStates, pairs, i) ==
    IF i > Len(pairs) THEN Return(automaton, finalStates)
    ELSE LET nonTerminal == pairs[i][1]
             production == pairs[i][2]
         IN IF production = <<EPS>> \/ production = <<>>
            THEN processProductions(G, automaton, Append(finalStates, nonTerminal),
                                    pairs, i + 1)
            ELSE IF Len(production) = 1 /\ production \in G.terminals
            THEN LET r == addTransition(automaton, nonTerminal, production, finalState) IN
                 IF r.threw THEN r
                 ELSE processProductions(G, r.obj, finalStates, pairs, i + 1)
            ELSE IF /\ Len(production) = 2
                    /\ <<production[1]>> \in G.terminals
                    /\ <<production[2]>> \in G.nonTerminals
            THEN LET r == addTransition(automaton, nonTerminal, <<production[1]>>,
                                        <<production[2]>>) IN
                 IF r.threw THEN r
                 ELSE processProductions(G, r.obj, finalStates, pairs, i + 1)
            ELSE processProductions(G, automaton, finalStates, pairs, i + 1)

\* a Set's elements as an array (the order plays no part in what follows)
RECURSIVE arrayFrom(_)
arrayFrom(S) ==
    IF S = {} THEN <<>>
    ELSE LET x == CHOOSE y \in S : TRUE IN <<x>> \o arrayFrom(S \ {x})

toFiniteAutomaton(G) ==
    LET a0 == FiniteAutomaton(<<"A", "F", "D", "_">> \o G.name)
        a1 == setStates(a0, Append(arrayFrom(G.nonTerminals), finalState))
        a2 == setAlphabet(a1, arrayFrom(G.terminals))
        r3 == setInitialState(a2, G.startSymbol)
    IN IF r3.threw THEN Throw(G, r3.error)
       ELSE LET r4 == processProductions(G, r3.obj, <<finalState>>,
                                         productionPairs(G.productions), 1)
            IN IF r4.threw THEN Throw(G, r4.error)
               ELSE LET r5 == setFinalStates(r4.obj, r4.value) IN
                    IF r5.threw THEN Throw(G, r5.error)
                    ELSE Return(G, r5.obj)

RECURSIVE productionErrors(_, _, _)
\* the errors the production loop of validate() pushes, from pair i on
productionErrors(G, pairs, i) ==
    IF i > Len(pairs) THEN <<>>
    ELSE LET nonTerminal == pairs[i][1]
             production == pairs[i][2]
             here ==
                 IF production # <<EPS>> /\ production # <<>>
                 THEN IF Len(production) > 2
                      THEN <<Message("ProduccionNoRegular", nonTerminal, production)>>
                      ELSE IF Len(production) = 2
                      THEN IF \/ <<production[1]>> \notin G.terminals
                              \/ <<production[2]>> \notin G.nonTerminals
                           THEN <<Message("ProduccionFormatoInvalido", nonTerminal,
                                          production)>>
                           ELSE <<>>
                      ELSE IF <<production[1]>> \notin G.terminals
                           THEN <<Message("TerminalNoDefinido", <<production[1]>>, <<>>)>>
                           ELSE <<>>
                 ELSE <<>>
         IN here \o productionErrors(G, pairs, i + 1)

validateGrammar(G) ==
    LET errors ==
            (IF G.nonTerminals = {} THEN <<Message("SinNoTerminales", <<>>, <<>>)>>
             ELSE <<>>)
            \o (IF G.terminals = {} THEN <<Message("SinTerminales", <<>>, <<>>)>>
                ELSE <<>>)
            \o (IF falsy(G.startSymbol)
                THEN <<Message("SinSimboloInicial", <<>>, <<>>)>> ELSE <<>>)
            \o (IF Len(G.productions) = 0
                THEN <<Message("SinProducciones", <<>>, <<>>)>> ELSE <<>>)
            \o productionErrors(G, productionPairs(G.productions), 1)
    IN [isValid |-> errors = <<>>, errors |-> errors, warnings |-> <<>>]

RECURSIVE productionStrings(_, _, _)
\* the `productions` array toRegularGrammar builds from the transitions
productionStrings(A, T, i) ==
    IF i > Len(T) THEN <<>>
    ELSE (<<T[i].from \o <<"-", ">">> \o T[i].symbol \o T[i].to>>
          \o (IF T[i].to \in A.finalStates
              THEN <<T[i].from \o <<"-", ">">> \o T[i].symbol>>
              ELSE <<>>))
         \o productionStrings(A, T, i + 1)

toRegularGrammar(A) ==
    LET g0 == RegularGrammar(<<"G", "R", "_">> \o A.name)
        g1 == setNonTerminals(g0, arrayFrom(A.states))
        g2 == setTerminals(g1, arrayFrom(A.alphabet))
        r3 == setStartSymbol(g2, A.initialState)
        productions ==
            productionStrings(A, A.transitions, 1)
            \o (IF A.initialState \in A.finalStates
                THEN <<A.initialState \o <<"-", ">", EPS>>>>
                ELSE <<>>)
    IN IF r3.threw THEN Throw(A, r3.error)
       ELSE IF Len(productions) > 0
       THEN LET r4 == setProductions(r3.obj, join(productions, <<";">>)) IN
            IF r4.threw THEN Throw(A, r4.error) ELSE Return(A, r4.obj)
       ELSE Return(A, r3.obj)

-----------------------------------------------------------------------------
(* class AutomataParser                                                    *)

\* a Number: NaN, or an integer
NaN == [nan |-> TRUE, n |-> 0]

Number(n) == [nan |-> FALSE, n |-> n]

\* the digits of radix 16 in value order, in both cases; the first ten are
\* the digits of radix 10
Digits == <<"0", "1", "2", "3", "4", "5", "6", "7", "8", "9",
            "a", "b", "c", "d", "e", "f">>

UpperDigits == <<"0", "1", "2", "3", "4", "5", "6", "7", "8", "9",
                 "A", "B", "C", "D", "E", "F">>

isDigit(c, radix) == \E d \in 1..radix : Digits[d] = c \/ UpperDigits[d] = c

digitValue(c, radix) ==
    (CHOOSE d \in 1..radix : Digits[d] = c \/ UpperDigits[d] = c) - 1

RECURSIVE leadingDigits(_, _, _)
\* the value of the longest prefix of digits of the radix, after `acc`
leadingDigits(s, radix, acc) ==
    IF s # <<>> /\ isDigit(Head(s), radix)
    THEN leadingDigits(Tail(s), radix, radix * acc + digitValue(Head(s), radix))
    ELSE acc

\* parseInt(string): leading white space and one sign are skipped, a 0x or
\* 0X prefix selects radix 16, the digits up to the first other character
\* are read, and a string without a leading digit gives NaN
parseInt(s) ==
    LET t == trimStart(s)
        signed == t # <<>> /\ Head(t) \in {"+", "-"}
        negative == t # <<>> /\ Head(t) = "-"
        u == IF signed THEN Tail(t) ELSE t
        hex == startsWith(u, <<"0", "x">>) \/ startsWith(u, <<"0", "X">>)
        radix == IF hex THEN 16 ELSE 10
        v == IF hex THEN Tail(Tail(u)) ELSE u
    IN IF v = <<>> \/ ~isDigit(Head(v), radix) THEN NaN
       ELSE Number(IF negative THEN 0 - leadingDigits(v, radix, 0)
                   ELSE leadingDigits(v, radix, 0))

\* Map.prototype.has / get / set on a Map held as a sequence of entries
mapHas(M, key) == \E i \in 1..Len(M) : M[i].key = key

mapGet(M, key) == M[CHOOSE i \in 1..Len(M) : M[i].key = key].value

mapSet(M, key, value) ==
    IF mapHas(M, key)
    THEN [i \in 1..Len(M) |-> IF M[i].key = key THEN [M[i] EXCEPT !.value = value]
                                                ELSE M[i]]
    ELSE Append(M, [key |-> key, value |-> value])

AutomataParser == [automata |-> <<>>, grammars |-> <<>>]

\* the Error parseFile throws for the line with forEach index `line - 1`
LineError(line, cause) == [kind |-> "ErrorEnLinea", line |-> line, cause |-> cause]

\* info.split(',').map(s => s.trim())
trimmedItems(info) ==
    LET items == split(info, <<",">>) IN [i \in 1..Len(items) |-> trim(items[i])]

parseLine(P, line) ==
    LET parts == split(line, <<":">>) IN
    IF Len(parts) # 3
    THEN Throw(P, Message("FormatoLineaInvalido", line, <<>>))
    ELSE
    LET id == parseInt(trim(parts[1]))
        name == trim(parts[2])
        info == trim(parts[3])
        \* the automaton is created for the name whatever the id is
        P1 == IF mapHas(P.automata, name) THEN P
              ELSE [P EXCEPT !.automata = mapSet(@, name, FiniteAutomaton(name))]
        automaton == mapGet(P1.automata, name)
        \* the outcome of a call on the automaton, as an outcome on the parser
        onAutomaton(r) ==
            [r EXCEPT !.obj = [P1 EXCEPT !.automata = mapSet(@, name, r.obj)],
                      !.value = Null]
        \* the grammar is created for the name by the cases 6 to 9 only
        P2 == IF mapHas(P1.grammars, name) THEN P1
              ELSE [P1 EXCEPT !.grammars = mapSet(@, name, RegularGrammar(name))]
        grammar == mapGet(P2.grammars, name)
        onGrammar(r) ==
            [r EXCEPT !.obj = [P2 EXCEPT !.grammars = mapSet(@, name, r.obj)],
                      !.value = Null]
    IN CASE id = Number(1) ->
                onAutomaton(Return(setStates(automaton, trimmedItems(info)), Null))
         [] id = Number(2) ->
                onAutomaton(Return(setAlphabet(automaton, trimmedItems(info)), Null))
         [] id = Number(3) -> onAutomaton(setInitialState(automaton, info))
         [] id = Number(4) -> onAutomaton(setFinalStates(automaton, trimmedItems(info)))
         [] id = Number(5) -> onAutomaton(setTransitions(automaton, info))
         [] id = Number(6) ->
                onGrammar(Return(setNonTerminals(grammar, trimmedItems(info)), Null))
         [] id = Number(7) ->
                onGrammar(Return(setTerminals(grammar, trimmedItems(info)), Null))
         [] id = Number(8) -> onGrammar(setStartSymbol(grammar, info))
         [] id = Number(9) -> onGrammar(setProductions(grammar, info))
         [] OTHER -> Throw(P1, Message("IdDesconocido", id, <<>>))

RECURSIVE parseLines(_, _, _, _)
\* the lines.forEach of parseFile from the line at `index` on (index is the
\* forEach index, counted from 0)
parseLines(P, lines, index, warned) ==
    IF index >= Len(lines)
    THEN [Return(P, P.automata) EXCEPT !.warned = warned]
    ELSE LET r == parseLine(P, trim(lines[index + 1])) IN
         IF r.threw
         THEN [Throw(r.obj, LineError(index + 1, r.error))
                  EXCEPT !.warned = warned + r.warned]
         ELSE parseLines(r.obj, lines, index + 1, warned + r.warned)

parseFile(P, content) ==
    LET lines == SelectSeq(split(content, <<"\n">>), LAMBDA line : trim(line) # <<>>)
    IN parseLines(P, lines, 0, 0)

getAutomata(P) == P.automata

getGrammars(P) == P.grammars

getAutomaton(P, name) ==
    IF mapHas(P.automata, name) THEN mapGet(P.automata, name) ELSE Null

getGrammar(P, name) ==
    IF mapHas(P.grammars, name) THEN mapGet(P.grammars, name) ELSE Null

\* a clear that empties the automata only
clearAutomata(P) == [P EXCEPT !.automata = <<>>]

clear(P) == [P EXCEPT !.automata = <<>>, !.grammars = <<>>]

-----------------------------------------------------------------------------
(* Inputs of the automaton operations                                      *)

\* longest transition table the setter actions build
MaxTransitions == 2

\* longest word given to recognizeWord
MaxWordLen == 2

q0 == <<"q", "0">>
q1 == <<"q", "1">>
Empty == <<>>
sa == <<"a">>
sb == <<"b">>

StateNames == {q0, q1}
Symbols == {sa, sb}

\* arrays given to setStates (names are trimmed by the setter)
StateLists == {<<<<" ", "q", "0">>, <<"q", "1", " ">>>>, <<q1>>}

\* arrays given to setAlphabet
SymbolLists == {<<sa, sb>>, <<sa>>}

\* arrays given to setFinalStates
FinalLists == {<<q1>>, <<q1, q0>>, <<q0>>}

\* strings given to setTransitions
TransitionTexts ==
    {<<"q","0",",","a",",","q","1",";"," ","q","0",","," ","a",",","q","0">>,
     <<"q","1",",","b",",","q","1",";","q","0",",","a">>}

Chars == {"a", "b"}

Words == UNION {[1..n -> Chars] : n \in 0..MaxWordLen}

-----------------------------------------------------------------------------
(* The automaton under construction: one action per method                 *)

Outcome(op, r) ==
    [op |-> op, threw |-> r.threw, error |-> r.error, value |-> r.value,
     warned |-> r.warned]

\* the outcome of a call together with the argument it was given
OutcomeOn(op, arg, r) ==
    [op |-> op, arg |-> arg, threw |-> r.threw, error |-> r.error,
     value |-> r.value, warned |-> r.warned]

\* the target most recently given by a successful addTransition, per pair
recordAdd(g, from, sym, to) ==
    {e \in g : ~(e[1] = from /\ e[2] = sym)} \cup {<<from, sym, to>>}

RECURSIVE recordAdds(_, _, _, _)
\* the addTransition calls setTransitions makes, in order
recordAdds(g, A, transitionList, i) ==
    IF i > Len(transitionList) THEN g
    ELSE LET parts == split(trim(transitionList[i]), <<",">>) IN
         IF Len(parts) # 3 THEN g
         ELSE LET r == addTransition(A, parts[1], parts[2], parts[3]) IN
              IF r.threw THEN g
              ELSE recordAdds(recordAdd(g, trim(parts[1]), trim(parts[2]), trim(parts[3])),
                              r.obj, transitionList, i + 1)

Init ==
    /\ fa = FiniteAutomaton(<<"X">>)
    /\ ret = Outcome("new", Return(Null, Null))
    /\ lastAdded = {}
    /\ runs = 0
    /\ rg = None
    /\ afd = None
    /\ parser = AutomataParser
    /\ parsed = None
    /\ heap = <<>>
    /\ held = None

SetStates ==
    \E states \in StateLists :
        /\ fa' = setStates(fa, states)
        /\ ret' = Outcome("setStates", Return(Null, Null))
        /\ UNCHANGED <<lastAdded, runs, grammarSide, parserSide, heapSide>>

SetAlphabet ==
    \E symbols \in SymbolLists :
        /\ fa' = setAlphabet(fa, symbols)
        /\ ret' = Outcome("setAlphabet", Return(Null, Null))
        /\ UNCHANGED <<lastAdded, runs, grammarSide, parserSide, heapSide>>

SetInitialState ==
    \E state \in StateNames :
        LET r == setInitialState(fa, state) IN
        /\ fa' = r.obj
        /\ ret' = Outcome("setInitialState", r)
        /\ UNCHANGED <<lastAdded, runs, grammarSide, parserSide, heapSide>>

SetFinalStates ==
    \E states \in FinalLists :
        LET r == setFinalStates(fa, states) IN
        /\ fa' = r.obj
        /\ ret' = Outcome("setFinalStates", r)
        /\ UNCHANGED <<lastAdded, runs, grammarSide, parserSide, heapSide>>

AddTransition ==
    \E fromState \in StateNames, symbol \in Symbols, toState \in StateNames :
        LET r == addTransition(fa, fromState, symbol, toState) IN
        /\ Len(r.obj.transitions) <= MaxTransitions
        /\ fa' = r.obj
        /\ ret' = Outcome("addTransition", r)
        /\ lastAdded' = IF r.threw THEN lastAdded
                        ELSE recordAdd(lastAdded, trim(fromState), trim(symbol),
                                       trim(toState))
        /\ UNCHANGED <<runs, grammarSide, parserSide, heapSide>>

SetTransitions ==
    \E transitionsStr \in TransitionTexts :
        LET r == setTransitions(fa, transitionsStr) IN
        /\ Len(r.obj.transitions) <= MaxTransitions
        /\ fa' = r.obj
        /\ ret' = Outcome("setTransitions", r)
        /\ lastAdded' = recordAdds(lastAdded, fa, split(transitionsStr, <<";">>), 1)
        /\ UNCHANGED <<runs, grammarSide, parserSide, heapSide>>

Next ==
    \/ SetStates
    \/ SetAlphabet
    \/ SetInitialState
    \/ SetFinalStates
    \/ AddTransition
    \/ SetTransitions

Spec == Init /\ [][Next]_vars

-----------------------------------------------------------------------------
(* Recognition on a defined automaton: reset, processSymbol, recognizeWord *)

\* state names of the automata that recognition runs on
RunNames == {q0, Empty}

\* the (state, symbol) pairs a transition is drawn for
RunPairs == <<<<q0, sa>>, <<q0, sb>>, <<Empty, sa>>>>

RECURSIVE addTransitions(_, _)
addTransitions(A, triples) ==
    IF triples = <<>> THEN A
    ELSE addTransitions(addTransition(A, triples[1][1], triples[1][2], triples[1][3]).obj,
                        Tail(triples))

RECURSIVE triplesOf(_, _, _)
triplesOf(pairs, targets, i) ==
    IF i > Len(pairs) THEN <<>>
    ELSE (IF targets[i] = Null THEN <<>>
          ELSE <<<<pairs[i][1], pairs[i][2], targets[i]>>>>)
         \o triplesOf(pairs, targets, i + 1)

\* the automaton a caller defines with the setters, in the order the
\* lifecycle gives: states, alphabet, initial state, final states,
\* transitions; then, possibly, a new alphabet (a smaller or an empty one)
defined(states, symbols, initial, finals, triples, lateSymbols) ==
    LET A1 == setAlphabet(setStates(FiniteAutomaton(<<"X">>), states), symbols)
        A2 == IF initial = Null THEN A1 ELSE setInitialState(A1, initial).obj
        A3 == setFinalStates(A2, finals).obj
        A4 == addTransitions(A3, triples)
    IN IF lateSymbols = Null THEN A4 ELSE setAlphabet(A4, lateSymbols)

InitRun ==
    /\ \E initial \in RunNames \cup {Null},
          finals \in {<<>>, <<q0>>, <<Empty>>, <<q0, Empty>>},
          targets \in [1..Len(RunPairs) -> RunNames \cup {Null}],
          lateSymbols \in {Null, <<sa>>, <<>>} :
            fa = defined(<<q0, Empty>>, <<sa, sb>>, initial, finals,
                         triplesOf(RunPairs, targets, 1), lateSymbols)
    /\ ret = Outcome("new", Return(Null, Null))
    /\ lastAdded = {}
    /\ runs = 0
    /\ rg = None
    /\ afd = None
    /\ parser = AutomataParser
    /\ parsed = None
    /\ heap = <<>>
    /\ held = None

Reset ==
    /\ fa' = reset(fa)
    /\ ret' = Outcome("reset", Return(Null, Null))
    /\ UNCHANGED <<lastAdded, runs, grammarSide, parserSide, heapSide>>

ProcessSymbol ==
    \E c \in Chars :
        LET r == processSymbol(fa, <<c>>) IN
        /\ Len(fa.executionPath) <= MaxWordLen
        /\ fa' = r.obj
        /\ ret' = OutcomeOn("processSymbol", <<c>>, r)
        /\ UNCHANGED <<lastAdded, runs, grammarSide, parserSide, heapSide>>

RecognizeWord ==
    \E word \in Words :
        LET r == recognizeWord(fa, word) IN
        /\ fa' = r.obj
        /\ ret' = Outcome("recognizeWord", r)
        /\ runs' = IF runs < 2 THEN runs + 1 ELSE runs
        /\ UNCHANGED <<lastAdded, grammarSide, parserSide, heapSide>>

NextRun ==
    \/ Reset
    \/ ProcessSymbol
    \/ RecognizeWord

SpecRun == InitRun /\ [][NextRun]_vars

-----------------------------------------------------------------------------
(* Conversions of a defined automaton: toRegularGrammar, and                *)
(* toFiniteAutomaton on the grammar it returned                            *)

\* the words of the round-trip comparison are those of up to this length
RoundTripLen == 5

sA == <<"A">>
sB == <<"B">>
qArrow == <<"q", "-", ">">>

\* the two state names of a converted automaton: one-character names,
\* longer names, an empty name, a name holding the '->' of a production
ConvStateLists == {<<sA, sB>>, <<q0, q1>>, <<q0, Empty>>, <<q0, qArrow>>}

wordsUpTo(n) == UNION {[1..k -> Chars] : k \in 0..n}

InitConv ==
    /\ \E names \in ConvStateLists :
        \E initial \in {Null, names[1]},
           finals \in {<<>>, <<names[1]>>, <<names[2]>>},
           targets \in [1..4 -> {Null, names[1], names[2]}] :
            fa = defined(names, <<sa, sb>>, initial, finals,
                         triplesOf(<<<<names[1], sa>>, <<names[1], sb>>,
                                     <<names[2], sa>>, <<names[2], sb>>>>,
                                   targets, 1),
                         Null)
    /\ ret = Outcome("new", Return(Null, Null))
    /\ lastAdded = {}
    /\ runs = 0
    /\ rg = None
    /\ afd = None
    /\ parser = AutomataParser
    /\ parsed = None
    /\ heap = <<>>
    /\ held = None

ToRegularGrammar ==
    LET r == toRegularGrammar(fa) IN
    /\ fa' = r.obj
    /\ rg' = IF r.threw THEN rg ELSE r.value
    /\ ret' = Outcome("toRegularGrammar", [r EXCEPT !.value = Null])
    /\ UNCHANGED <<lastAdded, runs, afd, parserSide, heapSide>>

ToFiniteAutomaton ==
    /\ rg # None
    /\ LET r == toFiniteAutomaton(rg) IN
        /\ rg' = r.obj
        /\ afd' = IF r.threw THEN None ELSE r.value
        /\ ret' = Outcome("toFiniteAutomaton", [r EXCEPT !.value = Null])
    /\ UNCHANGED <<fa, lastAdded, runs, parserSide, heapSide>>

NextConv ==
    \/ ToRegularGrammar
    \/ ToFiniteAutomaton

SpecConv == InitConv /\ [][NextConv]_vars

-----------------------------------------------------------------------------
(* The grammar under construction: one action per method, with validate()  *)
(* and toFiniteAutomaton()                                                 *)

\* most right-hand sides the setter actions store in a grammar
MaxProductions == 2

\* arrays given to setNonTerminals
NonTerminalLists == {<<sA, q0>>, <<Empty, <<" ", "A">>>>, <<sA, finalState>>}

\* arrays given to setTerminals
TerminalLists == {<<sa>>, <<sb>>}

\* right-hand sides given to addProduction
RightSides ==
    {<<EPS>>, <<>>, sa, <<"a", "A">>, <<"a", "b">>, <<"a", "q", "0">>, <<"a", "b", "c">>}

\* strings given to setProductions
ProductionTexts ==
    {<<"A","-",">","a","A",";","A","-",">","a">>,
     <<" ","q","0"," ","-",">"," ","a",";","A","-",">","a","-",">","b">>}

productionCount(G) == Len(productionPairs(G.productions))

InitGrammar ==
    /\ rg = RegularGrammar(<<"G">>)
    /\ afd = None
    /\ fa = FiniteAutomaton(<<"X">>)
    /\ ret = Outcome("new", Return(Null, Null))
    /\ lastAdded = {}
    /\ runs = 0
    /\ parser = AutomataParser
    /\ parsed = None
    /\ heap = <<>>
    /\ held = None

SetNonTerminals ==
    \E symbols \in NonTerminalLists :
        /\ rg' = setNonTerminals(rg, symbols)
        /\ afd' = None
        /\ ret' = Outcome("setNonTerminals", Return(Null, Null))
        /\ UNCHANGED <<fa, lastAdded, runs, parserSide, heapSide>>

SetTerminals ==
    \E symbols \in TerminalLists :
        /\ rg' = setTerminals(rg, symbols)
        /\ afd' = None
        /\ ret' = Outcome("setTerminals", Return(Null, Null))
        /\ UNCHANGED <<fa, lastAdded, runs, parserSide, heapSide>>

SetStartSymbol ==
    \E symbol \in {sA, Empty} :
        LET r == setStartSymbol(rg, symbol) IN
        /\ rg' = r.obj
        /\ afd' = None
        /\ ret' = Outcome("setStartSymbol", r)
        /\ UNCHANGED <<fa, lastAdded, runs, parserSide, heapSide>>

AddProduction ==
    \E leftSide \in {sA, sB}, rightSide \in RightSides :
        LET r == addProduction(rg, leftSide, rightSide) IN
        /\ productionCount(r.obj) <= MaxProductions
        /\ rg' = r.obj
        /\ afd' = None
        /\ ret' = Outcome("addProduction", r)
        /\ UNCHANGED <<fa, lastAdded, runs, parserSide, heapSide>>

SetProductions ==
    \E productionsStr \in ProductionTexts :
        LET r == setProductions(rg, productionsStr) IN
        /\ productionCount(r.obj) <= MaxProductions
        /\ rg' = r.obj
        /\ afd' = None
        /\ ret' = Outcome("setProductions", r)
        /\ UNCHANGED <<fa, lastAdded, runs, parserSide, heapSide>>

ValidateGrammar ==
    /\ ret' = Outcome("validate", Return(Null, validateGrammar(rg)))
    /\ UNCHANGED <<rg, afd, fa, lastAdded, runs, parserSide, heapSide>>

NextGrammar ==
    \/ SetNonTerminals
    \/ SetTerminals
    \/ SetStartSymbol
    \/ AddProduction
    \/ SetProductions
    \/ ValidateGrammar
    \/ ToFiniteAutomaton

SpecGrammar == InitGrammar /\ [][NextGrammar]_vars

-----------------------------------------------------------------------------
(* The parser: parseFile and clear                                         *)

\* most parseFile calls between two clear calls
MaxParses == 2

\* the line <code>:<name>:<payload>
fileLine(code, name, payload) == code \o <<":">> \o name \o <<":">> \o payload

\* the text that lists an automaton on lines 1, 2, 3, 4, 5, in that order
listingText(L) ==
    join(<<fileLine(<<"1">>, L.name, join(L.states, <<",">>)),
           fileLine(<<"2">>, L.name, join(L.alphabet, <<",">>)),
           fileLine(<<"3">>, L.name, L.initial),
           fileLine(<<"4">>, L.name, join(L.finals, <<",">>)),
           fileLine(<<"5">>, L.name,
                    join([i \in 1..Len(L.triples) |-> join(L.triples[i], <<",">>)],
                         <<";">>))>>,
         <<"\n">>)

\* the state names of the listed automata: plain names, and an empty name
ListedNames == {<<q0, q1>>, <<Empty, q1>>}

\* the (state, symbol) pairs a listing gives a transition for, by position
\* of the state among the listed states
ListedPairs(names) == <<<<names[1], sa>>, <<names[1], sb>>, <<names[2], sa>>>>

\* the listings: two states, the alphabet a,b, the first state initial, one or
\* both states final, a table with at least one transition
Listings ==
    UNION {{[name |-> <<"X">>, states |-> names, alphabet |-> <<sa, sb>>,
             initial |-> names[1], finals |-> finals,
             triples |-> triplesOf(ListedPairs(names), targets, 1)] :
                finals \in {<<names[2]>>, <<names[1], names[2]>>},
                targets \in [1..3 -> {Null, names[1], names[2]}]
                                \ {[i \in 1..3 |-> Null]}} :
           names \in ListedNames}

\* the X example
ExampleX ==
    <<"1", ":", "X", ":", "q", "0", ",", "q", "1", "\n", "2", ":", "X", ":",
      "a", ",", "b", "\n", "3", ":", "X", ":", "q", "0", "\n", "4", ":", "X",
      ":", "q", "1", "\n", "5", ":", "X", ":", "q", "0", ",", "a", ",", "q",
      "1", ";", "q", "0", ",", "b", ",", "q", "0", ";", "q", "1", ",", "a",
      ",", "q", "1", ";", "q", "1", ",", "b", ",", "q", "0">>

\* the malformed example: a piece of four fields on the second line
MalformedExample ==
    <<"1", ":", "X", ":", "q", "0", ",", "q", "1", "\n", "5", ":", "X", ":",
      "q", "0", ",", "a", ",", "q", "1", ",", "q", "2">>

\* the same two lines with an empty line between them
MalformedAfterBlank ==
    <<"1", ":", "X", ":", "q", "0", ",", "q", "1", "\n", "\n", "5", ":", "X",
      ":", "q", "0", ",", "a", ",", "q", "1", ",", "q", "2">>

\* a piece of two fields after a piece that is added, on the third line
MalformedSecondPiece ==
    <<"1", ":", "X", ":", "q", "0", ",", "q", "1", "\n", "2", ":", "X", ":",
      "a", "\n", " ", "5", " ", ":", " ", "X", " ", ":", " ", "q", "0", ",",
      "a", ",", "q", "1", " ", ";", " ", "q", "0", ",", "a", " ">>

\* a grammar, lines 6 to 9
GrammarExample ==
    <<"6", ":", "G", ":", "A", "\n", "7", ":", "G", ":", "a", "\n", "8", ":",
      "G", ":", "A", "\n", "9", ":", "G", ":", "A", "-", ">", "a", "A", ";",
      "A", "-", ">", "a">>

\* a code outside 1..9
UnknownCode ==
    <<"0", ":", "X", ":", "q", "0">>

\* a line of two fields
TwoFields ==
    <<"1", ":", "X">>

\* one more transition for X
MoreTransitions ==
    <<"5", ":", "X", ":", "q", "0", ",", "a", ",", "q", "0">>

FileTexts ==
    {ExampleX, MalformedExample, MalformedAfterBlank, MalformedSecondPiece,
     GrammarExample, UnknownCode, TwoFields, MoreTransitions}

\* a line of two fields on the third line, after an empty line
TwoFieldsAfterBlank ==
    <<"1", ":", "X", ":", "q", "0", "\n", "\n", "1", ":", "X">>

\* a line of four fields
FourFields ==
    <<"1", ":", "X", ":", "q", "0", ":", "q", "1">>

\* a code field that starts with a digit and goes on with a letter
CodeWithSuffix ==
    <<"1", "x", ":", "X", ":", "q", "0", ",", "q", "1">>

\* a code field that is a fraction
CodeFraction ==
    <<"1", ".", "5", ":", "X", ":", "q", "0">>

\* a code field without a digit
CodeWord ==
    <<"x", ":", "X", ":", "q", "0">>

\* the code 10
CodeTen ==
    <<"1", "0", ":", "X", ":", "q", "0">>

\* the code -1
CodeNegative ==
    <<"-", "1", ":", "X", ":", "q", "0">>

\* one line per code, for the automaton X and the grammar G
StatesLine == <<"1", ":", "X", ":", "q", "0">>

AlphabetLine == <<"2", ":", "X", ":", "a">>

InitialLine == <<"3", ":", "X", ":", "q", "0">>

FinalsLine == <<"4", ":", "X", ":", "q", "0">>

TransitionsLine == <<"5", ":", "X", ":", "q", "0", ",", "a", ",", "q", "0">>

NonTerminalsLine == <<"6", ":", "G", ":", "A">>

StartLine == <<"8", ":", "G", ":", "A">>

ProductionsLine == <<"9", ":", "G", ":", "A", "-", ">", "a">>

\* lines in an order that puts a setter before the set it checks against,
\* and the same lines in the order that defines the set first
LineOrders ==
    {[wrong |-> <<InitialLine, StatesLine>>, right |-> <<StatesLine, InitialLine>>],
     [wrong |-> <<FinalsLine, StatesLine>>, right |-> <<StatesLine, FinalsLine>>],
     [wrong |-> <<AlphabetLine, TransitionsLine, StatesLine>>,
      right |-> <<StatesLine, AlphabetLine, TransitionsLine>>],
     [wrong |-> <<StatesLine, TransitionsLine, AlphabetLine>>,
      right |-> <<AlphabetLine, StatesLine, TransitionsLine>>],
     [wrong |-> <<StartLine, NonTerminalsLine>>,
      right |-> <<NonTerminalsLine, StartLine>>],
     [wrong |-> <<ProductionsLine, NonTerminalsLine>>,
      right |-> <<NonTerminalsLine, ProductionsLine>>],
     \* an empty line first
     [wrong |-> <<Empty, InitialLine, StatesLine>>,
      right |-> <<Empty, StatesLine, InitialLine>>]}

OrderTexts ==
    {join(o.wrong, <<"\n">>) : o \in LineOrders}
        \cup {join(o.right, <<"\n">>) : o \in LineOrders}

\* two code-5 lines for X
TwoTransitionLines ==
    <<"1", ":", "X", ":", "q", "0", ",", "q", "1", "\n", "2", ":", "X", ":",
      "a", ",", "b", "\n", "5", ":", "X", ":", "q", "0", ",", "a", ",", "q",
      "1", "\n", "5", ":", "X", ":", "q", "1", ",", "b", ",", "q", "0">>

\* two code-9 lines for G
TwoProductionLines ==
    <<"6", ":", "G", ":", "A", "\n", "7", ":", "G", ":", "a", "\n", "9", ":",
      "G", ":", "A", "-", ">", "a", "A", "\n", "9", ":", "G", ":", "A", "-",
      ">", "a">>

\* two code-1 lines and two code-4 lines for X
TwoStateLines ==
    <<"1", ":", "X", ":", "q", "0", ",", "q", "1", "\n", "4", ":", "X", ":",
      "q", "0", "\n", "1", ":", "X", ":", "q", "1", ",", "q", "0", "\n", "4",
      ":", "X", ":", "q", "1">>

\* texts in which a line repeats the code and the name of an earlier line
RepeatTexts == {TwoTransitionLines, TwoProductionLines, TwoStateLines}

\* texts given to a new parser only
NewParserTexts ==
    {TwoFieldsAfterBlank, FourFields,
     CodeWithSuffix, CodeFraction, CodeWord, CodeTen, CodeNegative}
        \cup OrderTexts \cup RepeatTexts

\* parseFile calls made since the parser was new or cleared
parseCount == IF parsed = None THEN 0 ELSE parsed.parses

InitParser ==
    /\ parser = AutomataParser
    /\ parsed = None
    /\ heap = <<>>
    /\ held = None
    /\ ret = Outcome("new", Return(Null, Null))
    /\ fa = FiniteAutomaton(<<"X">>)
    /\ lastAdded = {}
    /\ runs = 0
    /\ rg = None
    /\ afd = None

\* parseFile(content) on the parser as it is
ParseFile ==
    \E content \in FileTexts :
        LET r == parseFile(parser, content) IN
        /\ parseCount < MaxParses
        /\ parser' = r.obj
        /\ parsed' = [content |-> content, listing |-> None,
                      fresh |-> parser = AutomataParser,
                      parses |-> parseCount + 1,
                      cleared |-> ret.op = "clear",
                      hadModels |-> ret.op = "clear" /\ parsed.hadModels]
        /\ ret' = Outcome("parseFile", [r EXCEPT !.value = Null])
        /\ UNCHANGED <<fa, lastAdded, runs, grammarSide, heapSide>>

\* parseFile on the text of a listing, given to a new parser
ParseListing ==
    \E L \in Listings :
        LET r == parseFile(parser, listingText(L)) IN
        /\ parser = AutomataParser
        /\ parseCount = 0
        /\ parser' = r.obj
        /\ parsed' = [content |-> listingText(L), listing |-> L, fresh |-> TRUE,
                      parses |-> 1,
                      cleared |-> ret.op = "clear",
                      hadModels |-> ret.op = "clear" /\ parsed.hadModels]
        /\ ret' = Outcome("parseFile", [r EXCEPT !.value = Null])
        /\ UNCHANGED <<fa, lastAdded, runs, grammarSide, heapSide>>

\* parseFile(content) on a new parser
ParseNew ==
    \E content \in NewParserTexts :
        LET r == parseFile(parser, content) IN
        /\ parser = AutomataParser
        /\ parseCount = 0
        /\ parser' = r.obj
        /\ parsed' = [content |-> content, listing |-> None, fresh |-> TRUE,
                      parses |-> 1,
                      cleared |-> ret.op = "clear",
                      hadModels |-> ret.op = "clear" /\ parsed.hadModels]
        /\ ret' = Outcome("parseFile", [r EXCEPT !.value = Null])
        /\ UNCHANGED <<fa, lastAdded, runs, grammarSide, heapSide>>

Clear ==
    /\ parser' = clear(parser)
    /\ parsed' = [content |-> <<>>, listing |-> None, fresh |-> FALSE, parses |-> 0,
                  cleared |-> TRUE,
                  hadModels |-> parser.automata # <<>> \/ parser.grammars # <<>>]
    /\ ret' = Outcome("clear", Return(Null, Null))
    /\ UNCHANGED <<fa, lastAdded, runs, grammarSide, heapSide>>

NextParser ==
    \/ ParseFile
    \/ ParseListing
    \/ ParseNew
    \/ Clear

SpecParser == InitParser /\ [][NextParser]_vars

-----------------------------------------------------------------------------
(* Properties of recognition                                               *)

\* the states a walk of the table can visit
tableStates(A) ==
    {A.transitions[i].from : i \in 1..Len(A.transitions)}
        \cup {A.transitions[i].to : i \in 1..Len(A.transitions)}
        \cup {A.initialState}

\* walking the transition table from the initial state consumes every symbol
\* of the word and ends in a final state
walkAccepts(A, word) ==
    /\ A.initialState # Null
    /\ \E st \in [0..Len(word) -> tableStates(A)] :
        /\ st[0] = A.initialState
        /\ \A i \in 1..Len(word) :
            /\ <<word[i]>> \in A.alphabet
            /\ \E k \in 1..Len(A.transitions) :
                A.transitions[k] =
                    [from |-> st[i - 1], symbol |-> <<word[i]>>, to |-> st[i]]
        /\ st[Len(word)] \in A.finalStates

\* C1: recognizeWord(w).accepted is true if and only if walking the
\* transition table from the initial state consumes every symbol of w and
\* the state reached after the last symbol is a final state.
C1_AcceptedIffWalk ==
    ret.op = "recognizeWord" =>
        (ret.value.accepted <=> walkAccepts(fa, ret.value.word))

\* the fields that define the automaton
definition(A) ==
    [states |-> A.states, alphabet |-> A.alphabet, initialState |-> A.initialState,
     finalStates |-> A.finalStates, transitions |-> A.transitions]

\* the same definition on an automaton that has never run
neverRun(A) == [A EXCEPT !.currentState = Null, !.executionPath = <<>>]

\* C2: recognizeWord(w) returns the same result whatever reset, processSymbol
\* and recognizeWord calls ran before it on the same definition (it is the
\* result the definition gives on an automaton that never ran, so any two
\* calls with the same w agree), and no recognition call changes states,
\* alphabet, initialState, finalStates or transitions.
C2_RecognizeIdempotent ==
    [][/\ definition(fa') = definition(fa)
       /\ ret'.op = "recognizeWord" =>
            ret'.value = recognizeWord(neverRun(fa), ret'.value.word).value]_vars

\* a second recognizeWord has run, after an earlier run left its trace, and
\* it accepted a word of two symbols
C2_Witness ==
    /\ runs = 2
    /\ ret.op = "recognizeWord"
    /\ ret.value.accepted
    /\ Len(ret.value.path) = 3

\* C3: every (state, symbol) pair has at most one retrievable target, the
\* target given by the most recent successful addTransition for the pair,
\* and the transitions array of getInfo() never lists a pair twice.
C3_Determinism ==
    LET T == getTransitionsArray(fa) IN
    /\ \A i, j \in 1..Len(T) :
        (T[i].from = T[j].from /\ T[i].symbol = T[j].symbol) => i = j
    /\ \A e \in lastAdded :
        hasTransition(fa, e[1], e[2]) /\ getTransition(fa, e[1], e[2]) = e[3]
    /\ \A i \in 1..Len(T) : <<T[i].from, T[i].symbol, T[i].to>> \in lastAdded

\* an addTransition has just overwritten the target of a pair, next to
\* another pair in the table
C3_Witness ==
    /\ ret.op = "addTransition"
    /\ ~ret.threw
    /\ ret.warned = 1
    /\ Len(fa.transitions) = 2

-----------------------------------------------------------------------------
(* Properties of the conversions                                           *)

accepts(A, word) == recognizeWord(A, word).value.accepted

range(seq) == {seq[i] : i \in 1..Len(seq)}

count(seq, x) == Cardinality({i \in 1..Len(seq) : seq[i] = x})

\* a complete, valid DFA: validate() reports no error and a transition is
\* defined for every (state, symbol) pair
completeValid(A) == validate(A).isValid /\ missingTransitions(A) = 0

\* C4: for a complete, valid DFA A, A.toRegularGrammar().toFiniteAutomaton()
\* accepts exactly the words A accepts, for all words up to length 5.
C4_RoundTrip ==
    (afd # None /\ completeValid(fa)) =>
        \A word \in wordsUpTo(RoundTripLen) : accepts(afd, word) <=> accepts(fa, word)

\* the (left side, right side) pairs the construction calls for: q -> ap for
\* every transition, q -> a when p is final, initialState -> eps when the
\* initial state is final
expectedProductions(A) ==
    LET T == A.transitions IN
    [i \in 1..Len(T) |-> <<T[i].from, T[i].symbol \o T[i].to>>]
    \o SelectSeq([i \in 1..Len(T) |->
                     IF T[i].to \in A.finalStates
                     THEN <<T[i].from, T[i].symbol>> ELSE Null],
                 LAMBDA x : x # Null)
    \o (IF A.initialState \in A.finalStates
        THEN <<<<A.initialState, <<EPS>>>>>> ELSE <<>>)

\* C5: for an automaton with an initial state, toRegularGrammar() returns a
\* grammar whose productions are exactly q -> ap per transition, q -> a per
\* transition into a final state and initialState -> eps iff the initial
\* state is final, each as often as the construction calls for it, and whose
\* nonterminals, terminals and start symbol are the automaton's states,
\* alphabet and initial state.
C5_ProductionsExact ==
    (ret.op = "toRegularGrammar" /\ fa.initialState # Null) =>
        /\ ~ret.threw
        /\ rg # None
        /\ rg.nonTerminals = fa.states
        /\ rg.terminals = fa.alphabet
        /\ rg.startSymbol = fa.initialState
        /\ LET got == productionPairs(rg.productions)
               want == expectedProductions(fa)
           IN \A x \in range(got) \cup range(want) : count(got, x) = count(want, x)

RECURSIVE derives(_, _, _)
\* the grammar derives the word from nonterminal X, its right-hand sides read
\* as eps, as a terminal, or as a terminal followed by a nonterminal
derives(G, X, word) ==
    \E pair \in range(productionPairs(G.productions)) :
        /\ pair[1] = X
        /\ LET rhs == pair[2] IN
            \/ (rhs = <<EPS>> \/ rhs = <<>>) /\ word = <<>>
            \/ rhs \in G.terminals /\ rhs = word
            \/ \E t \in G.terminals \ {<<>>}, B \in G.nonTerminals :
                /\ rhs = t \o B
                /\ startsWith(word, t)
                /\ derives(G, B, SubSeq(word, Len(t) + 1, Len(word)))

\* C10: for a valid automaton A, the grammar A.toRegularGrammar() derives a
\* word from its start symbol if and only if A.recognizeWord accepts it.
C10_GrammarEquivalent ==
    (ret.op = "toRegularGrammar" /\ validate(fa).isValid) =>
        /\ rg # None
        /\ \A word \in wordsUpTo(MaxWordLen) :
            derives(rg, rg.startSymbol, word) <=> accepts(fa, word)

-----------------------------------------------------------------------------
(* Properties of the grammar                                               *)

\* a right-hand side in right-linear form: the eps marker, the empty string,
\* a known terminal, or a known terminal followed by a known nonterminal
rightLinear(G, rhs) ==
    \/ rhs = <<EPS>>
    \/ rhs = <<>>
    \/ rhs \in G.terminals
    \/ \E t \in G.terminals, B \in G.nonTerminals : rhs = t \o B

\* the errors of validate() that are about a production, and the right-hand
\* side each one names
aboutProduction(e) ==
    e.kind \in {"ProduccionNoRegular", "ProduccionFormatoInvalido", "TerminalNoDefinido"}

namedRightSide(e) == IF e.kind = "TerminalNoDefinido" THEN e.a ELSE e.b

mapSeq(seq, Op(_)) == [i \in 1..Len(seq) |-> Op(seq[i])]

\* C8: validate() reports an error for a stored production if and only if
\* its right-hand side is not in right-linear form, and isValid is true if
\* and only if nonTerminals, terminals and productions are non-empty,
\* startSymbol is set and no production is flagged.
C8_ValidateGrammar ==
    ret.op = "validate" =>
        LET flagged == SelectSeq(ret.value.errors, aboutProduction)
            stored == mapSeq(productionPairs(rg.productions), LAMBDA pair : pair[2])
            wellFormed == /\ rg.nonTerminals # {}
                          /\ rg.terminals # {}
                          /\ Len(rg.productions) > 0
                          /\ rg.startSymbol # Null
                          /\ flagged = <<>>
        IN /\ mapSeq(flagged, namedRightSide)
                = SelectSeq(stored, LAMBDA rhs : ~rightLinear(rg, rhs))
           /\ (ret.value.isValid <=> wellFormed)

\* C9: for a grammar that passes validate(), toFiniteAutomaton() returns an
\* automaton that accepts a word if and only if the grammar derives it from
\* its start symbol.
C9_AutomatonEquivalent ==
    (ret.op = "toFiniteAutomaton" /\ validateGrammar(rg).isValid) =>
        /\ afd # None
        /\ \A word \in wordsUpTo(MaxWordLen) :
            accepts(afd, word) <=> derives(rg, rg.startSymbol, word)

-----------------------------------------------------------------------------
(* Properties of the parser                                                *)

\* the automaton a listing lists
listed(L) ==
    [states |-> range(L.states), alphabet |-> range(L.alphabet),
     initialState |-> L.initial, finalStates |-> range(L.finals),
     transitions |-> [i \in 1..Len(L.triples) |->
                         [from |-> L.triples[i][1], symbol |-> L.triples[i][2],
                          to |-> L.triples[i][3]]]]

\* C6: parsing, with a new parser, a text of lines 1, 2, 3, 4, 5 for one name
\* yields an automaton under that name whose states, alphabet, initial
\* state, final states and transitions are exactly the listed ones, and
\* recognizeWord on it accepts a word if and only if walking the listed table
\* does; on the X example recognizeWord("a") gives accepted = true with
\* finalState q1 and recognizeWord("b") gives accepted = false with
\* finalState q0.
C6_ParserRoundTrip ==
    /\ (ret.op = "parseFile" /\ parsed.listing # None) =>
            /\ ~ret.threw
            /\ mapHas(getAutomata(parser), parsed.listing.name)
            /\ LET A == getAutomaton(parser, parsed.listing.name)
                   want == listed(parsed.listing)
               IN /\ A.states = want.states
                  /\ A.alphabet = want.alphabet
                  /\ A.initialState = want.initialState
                  /\ A.finalStates = want.finalStates
                  /\ Len(A.transitions) = Len(want.transitions)
                  /\ range(A.transitions) = range(want.transitions)
                  /\ \A word \in Words : accepts(A, word) <=> walkAccepts(want, word)
    /\ (ret.op = "parseFile" /\ parsed.fresh /\ parsed.content = ExampleX) =>
            /\ ~ret.threw
            /\ mapHas(getAutomata(parser), <<"X">>)
            /\ LET A == getAutomaton(parser, <<"X">>)
                   onA == recognizeWord(A, <<"a">>).value
                   onB == recognizeWord(A, <<"b">>).value
               IN /\ onA.accepted
                  /\ onA.finalState = q1
                  /\ ~onB.accepted
                  /\ onB.finalState = q0

\* the lines of a text as given, blank ones included
textLines(content) == split(content, <<"\n">>)

\* a line with code 5 in which some ';'-separated piece does not split on ','
\* into exactly 3 fields
malformedTransitionLine(line) ==
    LET parts == split(trim(line), <<":">>) IN
    /\ Len(parts) = 3
    /\ parseInt(trim(parts[1])) = Number(5)
    /\ \E piece \in range(split(trim(parts[3]), <<";">>)) :
            Len(split(trim(piece), <<",">>)) # 3

\* the lines before line i are parsed without an error by a new parser
parsesUpTo(content, i) ==
    ~parseFile(AutomataParser, join(SubSeq(textLines(content), 1, i - 1), <<"\n">>)).threw

\* C7: when a new parser reaches a code-5 line with a piece that does not
\* split on ',' into exactly 3 fields, parseFile fails with an error that
\* names the line number of that line in the text, the cause being an error
\* of setTransitions.
C7_MalformedTransitionLine ==
    (ret.op = "parseFile" /\ parsed.fresh) =>
        \A i \in 1..Len(textLines(parsed.content)) :
            (/\ malformedTransitionLine(textLines(parsed.content)[i])
             /\ parsesUpTo(parsed.content, i)) =>
                /\ ret.threw
                /\ ret.error.kind = "ErrorEnLinea"
                /\ ret.error.line = i
                /\ ret.error.cause.kind
                        \in {"FormatoTransicionInvalido", "EstadoOrigenNoExiste",
                             "EstadoDestinoNoExiste", "SimboloNoEnAlfabeto"}

\* C11: when a new parser reaches a non-blank line that does not consist of
\* exactly three ':'-separated fields, parseFile fails with an error that
\* carries the text of the line and its 1-based line number, the position of
\* the line in the text as given, blank lines counted.
C11_LineShape ==
    (ret.op = "parseFile" /\ parsed.fresh) =>
        \A i \in 1..Len(textLines(parsed.content)) :
            LET line == textLines(parsed.content)[i] IN
            (/\ trim(line) # <<>>
             /\ Len(split(line, <<":">>)) # 3
             /\ parsesUpTo(parsed.content, i)) =>
                /\ ret.threw
                /\ ret.error.kind = "ErrorEnLinea"
                /\ ret.error.line = i
                /\ ret.error.cause.kind = "FormatoLineaInvalido"
                /\ ret.error.cause.a = trim(line)

\* the keys of a Map
mapKeys(M) == {M[i].key : i \in 1..Len(M)}

\* the names on the lines of three fields whose code is one of `codes`
namesWithCodes(content, codes) ==
    LET lines == textLines(content)
        fields(i) == split(trim(lines[i]), <<":">>)
    IN {trim(fields(i)[2]) :
            i \in {j \in 1..Len(lines) :
                      /\ Len(fields(j)) = 3
                      /\ \E c \in codes : parseInt(trim(fields(j)[1])) = Number(c)}}

\* C12: after a parseFile that a new parser completes, the automata
\* collection holds exactly the names of the lines with codes 1 to 5 and the
\* grammars collection exactly the names of the lines with codes 6 to 9 (no
\* line creates a model of the other family), one object per name.
C12_LazyPerFamily ==
    (ret.op = "parseFile" /\ parsed.fresh /\ ~ret.threw) =>
        /\ mapKeys(getAutomata(parser)) = namesWithCodes(parsed.content, 1..5)
        /\ mapKeys(getGrammars(parser)) = namesWithCodes(parsed.content, 6..9)
        /\ Len(getAutomata(parser)) = Cardinality(mapKeys(getAutomata(parser)))
        /\ Len(getGrammars(parser)) = Cardinality(mapKeys(getGrammars(parser)))

\* the text of an integer: an optional sign and one or more decimal digits
integerText(s) ==
    LET u == IF s # <<>> /\ Head(s) \in {"+", "-"} THEN Tail(s) ELSE s IN
    u # <<>> /\ \A k \in 1..Len(u) : isDigit(u[k], 10)

\* the code field is one of the integers 1..9
codeInRange(s) ==
    /\ integerText(s)
    /\ LET u == IF Head(s) \in {"+", "-"} THEN Tail(s) ELSE s IN
        Head(s) # "-" /\ leadingDigits(u, 10, 0) \in 1..9

\* the parser after a new parser has parsed the lines before line i
parserUpTo(content, i) ==
    parseFile(AutomataParser, join(SubSeq(textLines(content), 1, i - 1), <<"\n">>)).obj

\* C13: when a new parser reaches a line of three fields whose code field is
\* not one of the integers 1..9, parseFile fails at that line, with the
\* unknown-code error when the field is another integer, and no setter is
\* applied for the line: every model is as the lines before left it, or
\* is a model without any field set.
C13_UnknownCode ==
    (ret.op = "parseFile" /\ parsed.fresh) =>
        \A i \in 1..Len(textLines(parsed.content)) :
            LET fields == split(trim(textLines(parsed.content)[i]), <<":">>)
                before == parserUpTo(parsed.content, i)
            IN (/\ Len(fields) = 3
                /\ ~codeInRange(trim(fields[1]))
                /\ parsesUpTo(parsed.content, i)) =>
                    /\ ret.threw
                    /\ ret.error.kind = "ErrorEnLinea"
                    /\ integerText(trim(fields[1])) =>
                            ret.error.cause.kind = "IdDesconocido"
                    /\ \A k \in 1..Len(parser.automata) :
                            LET e == parser.automata[k] IN
                            \/ mapHas(before.automata, e.key)
                                    /\ mapGet(before.automata, e.key) = e.value
                            \/ e.value = FiniteAutomaton(e.key)
                    /\ parser.grammars = before.grammars

\* the code and the name of a line of three fields
lineCode(line) == parseInt(trim(split(trim(line), <<":">>)[1]))

lineName(line) == trim(split(trim(line), <<":">>)[2])

\* line i is a line with code `code` that no line with code `first` for the
\* same name precedes
comesBefore(lines, i, code, first) ==
    /\ Len(split(trim(lines[i]), <<":">>)) = 3
    /\ lineCode(lines[i]) = Number(code)
    /\ \A j \in 1..(i - 1) :
            ~(/\ Len(split(trim(lines[j]), <<":">>)) = 3
              /\ lineCode(lines[j]) = Number(first)
              /\ lineName(lines[j]) = lineName(lines[i]))

\* the errors of the setters
SetterErrors ==
    {"EstadoInicialNoExiste", "EstadoFinalNoExiste", "FormatoTransicionInvalido",
     "EstadoOrigenNoExiste", "EstadoDestinoNoExiste", "SimboloNoEnAlfabeto",
     "SimboloInicialNoExiste", "FormatoProduccionInvalido", "NoTerminalNoExiste"}

\* C14: when a new parser reaches a code-3, code-4 or code-5 line that comes
\* before the code-1 line of its automaton, a code-5 line before the code-2
\* line, or a code-8 or code-9 line before the code-6 line of its grammar,
\* parseFile fails with the setter's error wrapped in an error that names
\* that line; the same lines in the order that defines the set first are
\* parsed without an error.
C14_LineOrder ==
    (ret.op = "parseFile" /\ parsed.fresh) =>
        /\ \A i \in 1..Len(textLines(parsed.content)) :
                LET lines == textLines(parsed.content) IN
                (/\ \/ \E code \in 3..5 : comesBefore(lines, i, code, 1)
                    \/ comesBefore(lines, i, 5, 2)
                    \/ \E code \in 8..9 : comesBefore(lines, i, code, 6)
                 /\ parsesUpTo(parsed.content, i)) =>
                    /\ ret.threw
                    /\ ret.error.kind = "ErrorEnLinea"
                    /\ ret.error.line = i
                    /\ ret.error.cause.kind \in SetterErrors
        /\ (\E o \in LineOrders : parsed.content = join(o.right, <<"\n">>)) =>
                ~ret.threw

\* C15: clear() leaves both collections empty, and a parseFile(c) that
\* follows a clear(), whatever was parsed before it, leaves the parser as a
\* new parser is after parseFile(c), with the same outcome.
C15_ClearResets ==
    /\ ret.op = "clear" =>
            getAutomata(parser) = <<>> /\ getGrammars(parser) = <<>>
    /\ (ret.op = "parseFile" /\ parsed.cleared) =>
            LET r == parseFile(AutomataParser, parsed.content) IN
            /\ parser = r.obj
            /\ ret.threw = r.threw
            /\ ret.error = r.error

\* the X example has been parsed after a clear() that removed the automaton
\* and the grammar of an earlier load
C15_Witness ==
    /\ ret.op = "parseFile"
    /\ parsed.cleared
    /\ parsed.hadModels
    /\ parsed.content = ExampleX
    /\ mapKeys(getAutomata(parser)) = {<<"X">>}
    /\ getGrammars(parser) = <<>>

\* C16: a parseFile that fails leaves the automata and the grammars of the
\* parser as they were before the call: nothing that the lines before the
\* failing line created or modified is kept.
C16_NoPartialState ==
    [][(ret'.op = "parseFile" /\ ret'.threw) =>
            /\ getAutomata(parser') = getAutomata(parser)
            /\ getGrammars(parser') = getGrammars(parser)]_vars

------------------------------------------------------------------------------
(* Properties of the automaton under construction                          *)

\* every state and symbol the automaton refers to is one of its own
wellFormed(A) ==
    /\ A.initialState = Null \/ A.initialState \in A.states
    /\ A.finalStates \subseteq A.states
    /\ \A i \in 1..Len(getTransitionsArray(A)) :
           LET t == getTransitionsArray(A)[i] IN
           t.from \in A.states /\ t.to \in A.states /\ t.symbol \in A.alphabet

\* C17: after any sequence of setter calls, succeeding or failing, the
\* initial state is unset or one of the states, the final states are among
\* the states, and every transition goes from a state to a state on a symbol
\* of the alphabet.
C17_WellFormed == wellFormed(fa)

------------------------------------------------------------------------------
(* Properties of recognition: errors                                       *)

\* C18: recognizeWord never throws: on every automaton (without an initial
\* state, with an empty alphabet, with a partial table) and every word it
\* returns a result object, and when the automaton has no initial state and
\* the word is not empty the result has accepted = false and an error that
\* is not null.
C18_ErrorsAsData ==
    ret.op = "recognizeWord" =>
        /\ ~ret.threw
        /\ DOMAIN ret.value = {"word", "accepted", "path", "error", "finalState"}
        /\ (fa.initialState = Null /\ ret.value.word # <<>>) =>
                ~ret.value.accepted /\ ret.value.error # NoError

\* recognizeWord has returned the error of processSymbol for a word of two
\* symbols on an automaton without an initial state
C18_Witness ==
    /\ ret.op = "recognizeWord"
    /\ ~ret.threw
    /\ fa.initialState = Null
    /\ Len(ret.value.word) = 2
    /\ ret.value.error.kind = "NoInicializado"

\* the table has a transition from state s on character c of the alphabet
consumable(A, s, c) == <<c>> \in A.alphabet /\ hasTransition(A, s, <<c>>)

RECURSIVE walkFrom(_, _, _, _, _)
\* the state the table leads to from s on word[i..n], when every one of
\* these symbols can be consumed
walkFrom(A, s, word, i, n) ==
    IF i > n THEN [consumed |-> TRUE, state |-> s]
    ELSE IF consumable(A, s, word[i])
    THEN walkFrom(A, getTransition(A, s, <<word[i]>>), word, i + 1, n)
    ELSE [consumed |-> FALSE, state |-> s]

\* C19: when the k-th symbol of w (0-based) is the first one that cannot be
\* consumed, recognizeWord(w) returns accepted = false, finalState = null,
\* an error naming that symbol and the state reached after the first k
\* symbols, and a path of exactly k + 1 steps ending in that state; the
\* automaton has processed no symbol after it.
C19_FirstFailingSymbol ==
    (ret.op = "recognizeWord" /\ fa.initialState # Null) =>
        LET word == ret.value.word IN
        \A k \in 0..(Len(word) - 1) :
            LET reached == walkFrom(fa, fa.initialState, word, 1, k) IN
            (reached.consumed /\ ~consumable(fa, reached.state, word[k + 1])) =>
                /\ ~ret.value.accepted
                /\ ret.value.finalState = Null
                /\ ret.value.error =
                       Message("NoHayTransicion", <<word[k + 1]>>, reached.state)
                /\ Len(ret.value.path) = k + 1
                /\ ret.value.path[k + 1].state = reached.state
                /\ fa.executionPath = ret.value.path
                /\ fa.currentState = reached.state

-----------------------------------------------------------------------------
(* Objects by reference: an automaton, the grammars toRegularGrammar        *)
(* returns for it, and the calls that mutate one of these grammars          *)

\* the calls of toRegularGrammar and the mutating calls are at most these
MaxGrammars == 2
MaxMutations == 2

sC == <<"C">>

\* the object a FiniteAutomaton with the definition of A is in memory: the
\* object, then the Sets, the Map and the array its constructor creates
storeAutomaton(H, A) ==
    LET n == Len(H) IN
    H \o <<[name |-> A.name, states |-> n + 2, alphabet |-> n + 3,
            initialState |-> A.initialState, finalStates |-> n + 4,
            transitions |-> n + 5, currentState |-> A.currentState,
            executionPath |-> n + 6],
           A.states, A.alphabet, A.finalStates, A.transitions, A.executionPath>>

\* what the fields of the automaton at address a hold
automatonAt(H, a) ==
    LET o == H[a] IN
    [name |-> o.name,
     states |-> H[o.states],
     alphabet |-> H[o.alphabet],
     initialState |-> o.initialState,
     finalStates |-> H[o.finalStates],
     transitions |-> H[o.transitions],
     currentState |-> o.currentState,
     executionPath |-> H[o.executionPath]]

\* the object a RegularGrammar with the fields of G is in memory: the
\* object, the two Sets and the Map of its constructor, and one array for
\* each key of the Map, created by addProduction
storeGrammar(H, G) ==
    LET n == Len(H)
        k == Len(G.productions)
    IN H \o <<[name |-> G.name, nonTerminals |-> n + 2, terminals |-> n + 3,
               startSymbol |-> G.startSymbol, productions |-> n + 4],
              G.nonTerminals, G.terminals,
              [i \in 1..k |-> [left |-> G.productions[i].left, rights |-> n + 4 + i]]>>
         \o [i \in 1..k |-> G.productions[i].rights]

\* what the fields of the grammar at address g hold
grammarAt(H, g) ==
    LET o == H[g]
        P == H[o.productions]
    IN [name |-> o.name,
        nonTerminals |-> H[o.nonTerminals],
        terminals |-> H[o.terminals],
        startSymbol |-> o.startSymbol,
        productions |->
            [i \in 1..Len(P) |-> [left |-> P[i].left, rights |-> H[P[i].rights]]]]

\* a conversion whose grammar takes the automaton's own Set of states as its
\* nonTerminals
toRegularGrammarSharing(H, a) ==
    LET r == toRegularGrammar(automatonAt(H, a)) IN
    IF r.threw THEN [Throw(H, r.error) EXCEPT !.value = 0]
    ELSE Return([storeGrammar(H, r.value) EXCEPT ![Len(H) + 1].nonTerminals = H[a].states],
                Len(H) + 1)

\* toRegularGrammar on the automaton at address a: the automaton's
\* containers are read, and the grammar is a new object with containers of
\* its own; the value is its address
toRegularGrammarAt(H, a) ==
    LET r == toRegularGrammar(automatonAt(H, a)) IN
    IF r.threw THEN [Throw(H, r.error) EXCEPT !.value = 0]
    ELSE Return(storeGrammar(H, r.value), Len(H) + 1)

\* setNonTerminals on the grammar at address g: its Set is cleared and filled
setNonTerminalsAt(H, g, symbols) ==
    [H EXCEPT ![H[g].nonTerminals] =
                  setNonTerminals(grammarAt(H, g), symbols).nonTerminals]

\* addProduction on the grammar at address g: the array of `left` gets one
\* more element, and is created and set in the Map on first use
addProductionAt(H, g, leftSide, rightSide) ==
    LET left == trim(leftSide)
        right == trim(rightSide)
        o == H[g]
        P == H[o.productions]
    IN IF left \notin H[o.nonTerminals]
       THEN Throw(H, Message("NoTerminalNoExiste", left, <<>>))
       ELSE IF \E i \in 1..Len(P) : P[i].left = left
       THEN LET i == CHOOSE j \in 1..Len(P) : P[j].left = left IN
            Return([H EXCEPT ![P[i].rights] = Append(@, right)], Null)
       ELSE Return(Append([H EXCEPT ![o.productions] =
                                        Append(@, [left |-> left, rights |-> Len(H) + 1])],
                          <<right>>),
                   Null)

InitHeap ==
    /\ \E initial \in {Null, sA},
          finals \in {<<>>, <<sA>>, <<sB>>},
          targets \in [1..2 -> {Null, sA, sB}],
          ran \in BOOLEAN :
            LET A == defined(<<sA, sB>>, <<sa, sb>>, initial, finals,
                             triplesOf(<<<<sA, sa>>, <<sB, sb>>>>, targets, 1), Null)
            IN heap = storeAutomaton(<<>>, IF ran THEN recognizeWord(A, <<"a">>).obj
                                                   ELSE A)
    /\ held = [automaton |-> 1, grammars |-> <<>>, mutations |-> 0, last |-> 0]
    /\ fa = FiniteAutomaton(<<"X">>)
    /\ ret = Outcome("new", Return(Null, Null))
    /\ lastAdded = {}
    /\ runs = 0
    /\ rg = None
    /\ afd = None
    /\ parser = AutomataParser
    /\ parsed = None

ToRegularGrammarAt ==
    LET r == toRegularGrammarAt(heap, held.automaton) IN
    /\ Len(held.grammars) < MaxGrammars
    /\ heap' = r.obj
    /\ held' = IF r.threw THEN [held EXCEPT !.last = 0]
               ELSE [held EXCEPT !.grammars = Append(@, r.value), !.last = r.value]
    /\ ret' = Outcome("toRegularGrammar", [r EXCEPT !.value = Null])
    /\ UNCHANGED <<fa, lastAdded, runs, grammarSide, parserSide>>

SetNonTerminalsAt ==
    \E i \in 1..Len(held.grammars), symbols \in {<<sA>>, <<sA, sC>>} :
        /\ held.mutations < MaxMutations
        /\ heap' = setNonTerminalsAt(heap, held.grammars[i], symbols)
        /\ held' = [held EXCEPT !.mutations = @ + 1, !.last = held.grammars[i]]
        /\ ret' = Outcome("setNonTerminals", Return(Null, Null))
        /\ UNCHANGED <<fa, lastAdded, runs, grammarSide, parserSide>>

AddProductionAt ==
    \E i \in 1..Len(held.grammars), leftSide \in {sA, sC} :
        LET r == addProductionAt(heap, held.grammars[i], leftSide, <<"a">>) IN
        /\ held.mutations < MaxMutations
        /\ heap' = r.obj
        /\ held' = [held EXCEPT !.mutations = @ + 1, !.last = held.grammars[i]]
        /\ ret' = Outcome("addProduction", r)
        /\ UNCHANGED <<fa, lastAdded, runs, grammarSide, parserSide>>

NextHeap ==
    \/ ToRegularGrammarAt
    \/ SetNonTerminalsAt
    \/ AddProductionAt

SpecHeap == InitHeap /\ [][NextHeap]_vars

-----------------------------------------------------------------------------
(* Properties of the objects toRegularGrammar returns                      *)

\* C20: toRegularGrammar changes no field of the automaton it is called on
\* (nor of a grammar returned earlier); the grammar it returns is another
\* object than those returned before, with the same nonTerminals, terminals,
\* start symbol and productions as they had when returned; and an
\* addProduction or a setNonTerminals on one grammar changes neither the
\* other grammar nor the automaton.
C20_Independent ==
    [][/\ ret'.op = "toRegularGrammar" =>
            /\ automatonAt(heap', held.automaton) = automatonAt(heap, held.automaton)
            /\ \A i \in 1..Len(held.grammars) :
                  grammarAt(heap', held.grammars[i]) = grammarAt(heap, held.grammars[i])
            /\ ~ret'.threw =>
                  /\ held'.last # held.automaton
                  /\ \A i \in 1..Len(held.grammars) :
                        /\ held'.last # held.grammars[i]
                        /\ held.mutations = 0 =>
                              grammarAt(heap', held'.last)
                                  = grammarAt(heap', held.grammars[i])
       /\ ret'.op \in {"addProduction", "setNonTerminals"} =>
            /\ automatonAt(heap', held.automaton) = automatonAt(heap, held.automaton)
            /\ \A i \in 1..Len(held.grammars) :
                  held.grammars[i] # held'.last =>
                      grammarAt(heap', held.grammars[i])
                          = grammarAt(heap, held.grammars[i])]_vars

\* two grammars have been returned for an automaton that has run, and an
\* addProduction on one of them has made it differ from the other
C20_Witness ==
    /\ held # None
    /\ Len(held.grammars) = 2
    /\ ret.op = "addProduction"
    /\ ~ret.threw
    /\ automatonAt(heap, held.automaton).executionPath # <<>>
    /\ grammarAt(heap, held.grammars[1]).productions
           # grammarAt(heap, held.grammars[2]).productions

-----------------------------------------------------------------------------
(* Properties of toFiniteAutomaton                                         *)

\* the nonterminals with an ε or an empty production
epsilonNonTerminals(G) ==
    {pair[1] : pair \in {p \in range(productionPairs(G.productions)) :
                            p[2] = <<EPS>> \/ p[2] = <<>>}}

\* C21: the automaton toFiniteAutomaton() returns for a grammar with a start
\* symbol has the nonterminals plus one synthetic final state, which is none
\* of the nonterminals, as states, the terminals as alphabet, the start
\* symbol as initial state, and the synthetic state together with exactly
\* the nonterminals that have an ε (or empty) production as final states.
C21_AutomatonShape ==
    (ret.op = "toFiniteAutomaton" /\ ~ret.threw /\ rg.startSymbol # Null) =>
        /\ afd.alphabet = rg.terminals
        /\ afd.initialState = rg.startSymbol
        /\ \E synthetic \in afd.states \ rg.nonTerminals :
              /\ afd.states = rg.nonTerminals \cup {synthetic}
              /\ afd.finalStates = {synthetic} \cup epsilonNonTerminals(rg)

\* the automaton has the transition from state `from` on `sym` to `to`
retrievable(A, from, sym, to) ==
    hasTransition(A, from, sym) /\ getTransition(A, from, sym) = to

\* C22: in the automaton toFiniteAutomaton() returns, every production
\* A -> a with a known terminal a is a retrievable transition from A on a to
\* the synthetic final state, and every production A -> aB with a known
\* terminal a and a known nonterminal B is a retrievable transition from A
\* on a to B, for all productions of the grammar at once.
C22_ProductionsAsTransitions ==
    (ret.op = "toFiniteAutomaton" /\ ~ret.threw) =>
        \A pair \in range(productionPairs(rg.productions)) :
            LET A == pair[1]
                production == pair[2]
            IN /\ (Len(production) = 1 /\ production \in rg.terminals) =>
                      retrievable(afd, A, production, finalState)
               /\ (/\ Len(production) > 1
                   /\ <<production[1]>> \in rg.terminals
                   /\ Tail(production) \in rg.nonTerminals) =>
                      retrievable(afd, A, <<production[1]>>, Tail(production))

-----------------------------------------------------------------------------
(* The example of the README: AF04, parsed and given words                 *)

\* longest word given to the example automaton
ExampleLen == 6

AF04 == <<"A", "F", "0", "4">>

\* the five lines of AF04 in the example file of the README
ExampleAF04 ==
    <<"1", ":", "A", "F", "0", "4", ":", "q", "0", ",", "q", "1", ",", "q",
      "2", "\n", "2", ":", "A", "F", "0", "4", ":", "a", ",", "b", "\n", "3",
      ":", "A", "F", "0", "4", ":", "q", "0", "\n", "4", ":", "A", "F", "0",
      "4", ":", "q", "1", "\n", "5", ":", "A", "F", "0", "4", ":", "q", "0",
      ",", "a", ",", "q", "1", ";", "q", "0", ",", "b", ",", "q", "2", ";",
      "q", "1", ",", "a", ",", "q", "1", ";", "q", "1", ",", "b", ",", "q",
      "2", ";", "q", "2", ",", "a", ",", "q", "1", ";", "q", "2", ",", "b",
      ",", "q", "0">>

\* the example file as the README prints it, with its '#' title line (the
\* accents of the title left out)
ExampleFile ==
    <<"#", " ", "A", "u", "t", "o", "m", "a", "t", "a", " ", "F", "i", "n",
      "i", "t", "o", " ", "D", "e", "t", "e", "r", "m", "i", "n", "i", "s",
      "t", "i", "c", "o", "\n", "1", ":", "A", "F", "0", "4", ":", "q", "0",
      ",", "q", "1", ",", "q", "2", "\n", "2", ":", "A", "F", "0", "4", ":",
      "a", ",", "b", "\n", "3", ":", "A", "F", "0", "4", ":", "q", "0", "\n",
      "4", ":", "A", "F", "0", "4", ":", "q", "1", "\n", "5", ":", "A", "F",
      "0", "4", ":", "q", "0", ",", "a", ",", "q", "1", ";", "q", "0", ",",
      "b", ",", "q", "2", ";", "q", "1", ",", "a", ",", "q", "1", ";", "q",
      "1", ",", "b", ",", "q", "2", ";", "q", "2", ",", "a", ",", "q", "1",
      ";", "q", "2", ",", "b", ",", "q", "0">>

InitExample ==
    /\ parser = AutomataParser
    /\ parsed = None
    /\ fa = FiniteAutomaton(<<"X">>)
    /\ ret = Outcome("new", Return(Null, Null))
    /\ lastAdded = {}
    /\ runs = 0
    /\ rg = None
    /\ afd = None
    /\ heap = <<>>
    /\ held = None

\* the file is loaded and AF04, when the parser has it, is the automaton
\* the caller goes on with
ParseExample ==
    \E content \in {ExampleAF04, ExampleFile} :
        LET r == parseFile(parser, content) IN
        /\ parsed = None
        /\ parser' = r.obj
        /\ parsed' = [content |-> content, listing |-> None, fresh |-> TRUE,
                      parses |-> 1, cleared |-> FALSE, hadModels |-> FALSE]
        /\ fa' = IF mapHas(getAutomata(r.obj), AF04) THEN getAutomaton(r.obj, AF04)
                 ELSE fa
        /\ ret' = Outcome("parseFile", [r EXCEPT !.value = Null])
        /\ UNCHANGED <<lastAdded, runs, grammarSide, heapSide>>

RecognizeExample ==
    \E word \in wordsUpTo(ExampleLen) :
        LET r == recognizeWord(fa, word) IN
        /\ parsed # None
        /\ mapHas(getAutomata(parser), AF04)
        /\ fa' = r.obj
        /\ parser' = [parser EXCEPT !.automata = mapSet(@, AF04, r.obj)]
        /\ ret' = Outcome("recognizeWord", r)
        /\ runs' = IF runs < 2 THEN runs + 1 ELSE runs
        /\ UNCHANGED <<lastAdded, parsed, grammarSide, heapSide>>

NextExample ==
    \/ ParseExample
    \/ RecognizeExample

SpecExample == InitExample /\ [][NextExample]_vars

\* C23: AF04, once parsed, accepts a word over {a, b} if and only if the
\* word is not empty and its last symbol is 'a', for every word of up to
\* ExampleLen symbols and whatever was recognized before.
C23_EndsInA ==
    (ret.op = "recognizeWord" /\ parsed.content = ExampleAF04) =>
        LET word == ret.value.word IN
        ret.value.accepted <=> (word # <<>> /\ word[Len(word)] = "a")

\* a word of ExampleLen symbols that starts with 'b' has been accepted by
\* the parsed AF04 in its second run or a later one
C23_Witness ==
    /\ ret.op = "recognizeWord"
    /\ parsed.content = ExampleAF04
    /\ runs = 2
    /\ Len(ret.value.word) = ExampleLen
    /\ ret.value.word[1] = "b"
    /\ ret.value.accepted

-----------------------------------------------------------------------------
(* validate() on a defined automaton                                       *)

\* the automata validate() is called on: those recognition runs on, and
\* those a later setStates has taken states from
InitValidate ==
    /\ \E initial \in RunNames \cup {Null},
          finals \in {<<>>, <<q0>>, <<Empty>>},
          targets \in [1..Len(RunPairs) -> RunNames \cup {Null}],
          lateSymbols \in {Null, <<sa>>, <<>>},
          lateStates \in {Null, <<q0>>, <<>>} :
            LET A == defined(<<q0, Empty>>, <<sa, sb>>, initial, finals,
                             triplesOf(RunPairs, targets, 1), lateSymbols)
            IN fa = IF lateStates = Null THEN A ELSE setStates(A, lateStates)
    /\ ret = Outcome("new", Return(Null, Null))
    /\ lastAdded = {}
    /\ runs = 0
    /\ rg = None
    /\ afd = None
    /\ parser = AutomataParser
    /\ parsed = None
    /\ heap = <<>>
    /\ held = None

Validate ==
    /\ ret' = Outcome("validate", Return(Null, validate(fa)))
    /\ UNCHANGED <<fa, lastAdded, runs, grammarSide, parserSide, heapSide>>

NextValidate == Validate

SpecValidate == InitValidate /\ [][NextValidate]_vars

-----------------------------------------------------------------------------
(* Properties of FiniteAutomaton.validate                                  *)

\* C24: validate() returns isValid = true if and only if states is not
\* empty, alphabet is not empty and an initial state has been set; an empty
\* finalStates and an incomplete table give warnings and never make isValid
\* false; validate() changes nothing on the automaton.
C24_ValidIffDefined ==
    [][ret'.op = "validate" =>
          /\ ret'.value.isValid <=>
                (fa.states # {} /\ fa.alphabet # {} /\ fa.initialState # Null)
          /\ fa' = fa]_vars

\* the warnings of validate() about the transition table
incompleteness(result) ==
    SelectSeq(result.warnings, LAMBDA w : w.kind = "FaltanTransiciones")

\* the pairs of the current states and alphabet that have a transition
definedPairs(A) ==
    {<<A.transitions[i].from, A.transitions[i].symbol>> : i \in 1..Len(A.transitions)}
        \cap (A.states \X A.alphabet)

\* C25: validate() gives the incompleteness warning if and only if some pair
\* of the current states and the current alphabet has no transition, and the
\* count in the warning is the number of such pairs: |states| * |alphabet|
\* minus the number of defined pairs whose state and symbol are in the
\* current sets.
C25_MissingCount ==
    ret.op = "validate" =>
        LET missing == Cardinality(fa.states) * Cardinality(fa.alphabet)
                           - Cardinality(definedPairs(fa))
            warned == incompleteness(ret.value)
        IN /\ Len(warned) <= 1
           /\ (warned # <<>>) <=> (missing > 0)
           /\ warned # <<>> => warned[1].count = missing

\* validate() has counted the missing pairs of an automaton that has a
\* transition on a pair that is no longer in states x alphabet and a
\* transition on a pair that is
C25_Witness ==
    /\ ret.op = "validate"
    /\ incompleteness(ret.value) # <<>>
    /\ Cardinality(definedPairs(fa)) = 1
    /\ Len(fa.transitions) = 2

-----------------------------------------------------------------------------
(* Properties of the parser: field lines                                   *)

linePayload(line) == trim(split(trim(line), <<":">>)[3])

\* the items of a ','-separated payload
payloadItems(payload) == range(trimmedItems(payload))

\* the pieces of a ';'-separated payload, each split on `sep` and trimmed
payloadPieces(payload, sep) ==
    LET pieces == split(payload, <<";">>) IN
    [i \in 1..Len(pieces) |->
        LET parts == split(trim(pieces[i]), sep) IN
        [k \in 1..Len(parts) |-> trim(parts[k])]]

\* the transitions of an automaton as (from, symbol, to) triples
transitionTriples(A) ==
    {<<A.transitions[i].from, A.transitions[i].symbol, A.transitions[i].to>> :
        i \in 1..Len(A.transitions)}

\* the field that a line with this code addresses holds its payload
holdsPayload(P, code, name, payload) ==
    LET automaton == getAutomaton(P, name)
        grammar == getGrammar(P, name)
    IN CASE code = Number(1) -> automaton.states = payloadItems(payload)
         [] code = Number(2) -> automaton.alphabet = payloadItems(payload)
         [] code = Number(4) -> automaton.finalStates = payloadItems(payload)
         [] code = Number(5) ->
                transitionTriples(automaton) = range(payloadPieces(payload, <<",">>))
         [] code = Number(6) -> grammar.nonTerminals = payloadItems(payload)
         [] code = Number(7) -> grammar.terminals = payloadItems(payload)
         [] code = Number(9) ->
                /\ range(productionPairs(grammar.productions))
                       = range(payloadPieces(payload, <<"-", ">">>))
                /\ productionCount(grammar) = Len(payloadPieces(payload, <<"-", ">">>))
         [] OTHER -> TRUE

\* C26: after a parseFile that a new parser completes, the field addressed
\* by the last line of each code 1, 2, 4, 5, 6, 7, 9 and each name holds
\* exactly the items of that line's payload, whatever the earlier lines with
\* the same code and name had put there.
C26_FieldIsPayload ==
    (ret.op = "parseFile" /\ parsed.fresh /\ ~ret.threw) =>
        LET lines == SelectSeq(textLines(parsed.content),
                               LAMBDA line : trim(line) # <<>>)
        IN \A i \in 1..Len(lines) :
              (\A j \in (i + 1)..Len(lines) :
                    ~(lineCode(lines[j]) = lineCode(lines[i])
                      /\ lineName(lines[j]) = lineName(lines[i]))) =>
                  holdsPayload(parser, lineCode(lines[i]), lineName(lines[i]),
                               linePayload(lines[i]))

-----------------------------------------------------------------------------
(* Properties of processSymbol and of the execution trace                  *)

\* C27: processSymbol(s) on an automaton that a reset has put in a state
\* returns false and leaves currentState and the trace unchanged when s is
\* not in the alphabet or (currentState, s) has no transition; otherwise it
\* returns true, sets currentState to the target and appends the one step
\* (target, s, previous trace length). It never changes states, alphabet,
\* initialState, finalStates or transitions.
C27_ProcessSymbol ==
    [][(ret'.op = "processSymbol" /\ fa.currentState # Null) =>
          LET s == ret'.arg IN
          /\ ~ret'.threw
          /\ definition(fa') = definition(fa)
          /\ IF s \notin fa.alphabet \/ ~hasTransition(fa, fa.currentState, s)
             THEN /\ ret'.value = FALSE
                  /\ fa'.currentState = fa.currentState
                  /\ fa'.executionPath = fa.executionPath
             ELSE LET target == getTransition(fa, fa.currentState, s) IN
                  /\ ret'.value = TRUE
                  /\ fa'.currentState = target
                  /\ fa'.executionPath =
                         Append(fa.executionPath,
                                Step(target, s, Len(fa.executionPath)))]_vars

\* C28: on an automaton on which neither reset() nor recognizeWord() has run,
\* and after a reset() on an automaton without an initial state,
\* processSymbol fails with the not-initialized error and changes nothing,
\* for every symbol.
C28_NotInitialized ==
    [][(/\ ret'.op = "processSymbol"
        /\ \/ fa = neverRun(fa)
           \/ ret.op = "reset" /\ fa.initialState = Null) =>
          /\ ret'.threw
          /\ ret'.error.kind = "NoInicializado"
          /\ fa' = fa]_vars

\* processSymbol has failed for a symbol outside the alphabet on an
\* automaton that has an initial state and has never run
C28_Witness ==
    /\ ret.op = "processSymbol"
    /\ ret.threw
    /\ ret.arg \notin fa.alphabet
    /\ fa.initialState = q0
    /\ fa = neverRun(fa)

\* the trace starts at the initial state, numbers its steps, follows the
\* transitions and ends in the current state
traceFollows(A) ==
    LET path == A.executionPath IN
    /\ path # <<>>
    /\ path[1] = Step(A.initialState, Null, 0)
    /\ \A i \in 1..Len(path) : path[i].step = i - 1
    /\ path[Len(path)].state = A.currentState
    /\ \A i \in 2..Len(path) :
          retrievable(A, path[i - 1].state, path[i].symbol, path[i].state)

\* C29: on an automaton with an initial state, in every state that reset,
\* processSymbol and recognizeWord lead to once a reset has run, the trace is
\* not empty, its first step is (initialState, null, 0), the step field of
\* the i-th element is i, the last element's state is currentState, and each
\* later step's state is the transition target of the earlier step's state
\* on the later step's symbol; reset() discards every step of an earlier run.
C29_TraceInvariant ==
    [][/\ (fa'.initialState # Null /\ fa'.currentState # Null) => traceFollows(fa')
       /\ (ret'.op = "reset" /\ fa.initialState # Null) =>
             fa'.executionPath = <<Step(fa.initialState, Null, 0)>>]_vars

-----------------------------------------------------------------------------
(* Properties of the conversions: errors                                   *)

\* some production has a left side that is not a nonterminal any more
\* the grammars and automata a conversion is called on: a grammar defined with
\* the setters, one production added, then possibly given new nonterminals;
\* an automaton with or without an initial state
InitStale ==
    /\ \E symbols \in NonTerminalLists, terminals \in TerminalLists,
          symbol \in {Null, sA},
          leftSide \in {sA, q0, finalState}, rightSide \in RightSides,
          lateSymbols \in NonTerminalLists \cup {Null} :
            LET G1 == setTerminals(setNonTerminals(RegularGrammar(<<"G">>), symbols),
                                   terminals)
                G2 == IF symbol = Null THEN G1 ELSE setStartSymbol(G1, symbol).obj
                G3 == addProduction(G2, leftSide, rightSide).obj
            IN rg = IF lateSymbols = Null THEN G3 ELSE setNonTerminals(G3, lateSymbols)
    /\ \E initial \in {Null, q0} :
            fa = defined(<<q0, q1>>, <<sa, sb>>, initial, <<q1>>,
                         <<<<q0, sa, q1>>>>, Null)
    /\ ret = Outcome("new", Return(Null, Null))
    /\ lastAdded = {}
    /\ runs = 0
    /\ afd = None
    /\ parser = AutomataParser
    /\ parsed = None
    /\ heap = <<>>
    /\ held = None

NextStale ==
    \/ ToRegularGrammar
    \/ ToFiniteAutomaton

SpecStale == InitStale /\ [][NextStale]_vars

staleLeftSide(G) ==
    \E pair \in range(productionPairs(G.productions)) : pair[1] \notin G.nonTerminals

\* C30: toRegularGrammar() on an automaton without an initial state and
\* toFiniteAutomaton() on a grammar without a start symbol fail instead of
\* returning a model and leave the source unchanged; toFiniteAutomaton()
\* also fails when the left side of a production (an ε-producing nonterminal
\* included) is no longer in nonTerminals.
C30_ConversionErrors ==
    [][/\ (ret'.op = "toRegularGrammar" /\ fa.initialState = Null) =>
             ret'.threw /\ fa' = fa /\ rg' = rg
       /\ (/\ ret'.op = "toFiniteAutomaton"
           /\ rg.startSymbol = Null \/ staleLeftSide(rg)) =>
             ret'.threw /\ rg' = rg /\ afd' = None]_vars

-----------------------------------------------------------------------------
(* addProduction on a grammar that already holds productions               *)

\* left and right sides given to addProduction, some with spaces around
StoredLefts == {sA, <<" ", "A">>, sB, q0}
StoredRights == {sa, <<" ", "a", " ">>, <<"a", "b", "c">>, <<>>}

\* the grammars addProduction is called on: nonterminals set, then possibly
\* a production string
InitProductions ==
    /\ \E symbols \in NonTerminalLists, productionsStr \in ProductionTexts \cup {Null} :
            LET G1 == setNonTerminals(RegularGrammar(<<"G">>), symbols)
            IN rg = IF productionsStr = Null THEN G1
                    ELSE setProductions(G1, productionsStr).obj
    /\ afd = None
    /\ fa = FiniteAutomaton(<<"X">>)
    /\ ret = Outcome("new", Return(Null, Null))
    /\ lastAdded = {}
    /\ runs = 0
    /\ parser = AutomataParser
    /\ parsed = None
    /\ heap = <<>>
    /\ held = None

AddProductionTo ==
    \E leftSide \in StoredLefts, rightSide \in StoredRights :
        LET r == addProduction(rg, leftSide, rightSide) IN
        /\ productionCount(rg) < MaxProductions + 2
        /\ rg' = r.obj
        /\ ret' = OutcomeOn("addProduction", <<leftSide, rightSide>>, r)
        /\ UNCHANGED <<afd, fa, lastAdded, runs, parserSide, heapSide>>

NextProductions ==
    \/ AddProductionTo
    \/ SetNonTerminals

SpecProductions == InitProductions /\ [][NextProductions]_vars

-----------------------------------------------------------------------------
(* Properties of addProduction                                             *)

\* this.productions.get(nonTerminal), an absent key read as no productions
rightsOf(G, nonTerminal) ==
    IF \E i \in 1..Len(G.productions) : G.productions[i].left = nonTerminal
    THEN (CHOOSE e \in range(G.productions) : e.left = nonTerminal).rights
    ELSE <<>>

leftsOf(G) == {G.productions[i].left : i \in 1..Len(G.productions)}

\* C31: addProduction(left, right) fails, leaving the productions unchanged,
\* if and only if trimmed left is not a current nonterminal; otherwise it
\* appends trimmed right as the last element of left's list whatever its
\* shape (malformed and duplicate right sides are stored), and the lists of
\* all other nonterminals, and the earlier elements of this one, stay as
\* they were.
C31_AddProduction ==
    [][ret'.op = "addProduction" =>
          LET left == trim(ret'.arg[1])
              right == trim(ret'.arg[2])
          IN /\ ret'.threw <=> (left \notin rg.nonTerminals)
             /\ ret'.threw => rg' = rg
             /\ ~ret'.threw =>
                  /\ rightsOf(rg', left) = Append(rightsOf(rg, left), right)
                  /\ \A n \in (leftsOf(rg) \cup leftsOf(rg')) \ {left} :
                        rightsOf(rg', n) = rightsOf(rg, n)
                  /\ rg' = [rg EXCEPT !.productions = rg'.productions]]_vars

\* a malformed right side stored twice after an earlier production, the
\* input given with spaces around
C31_Witness ==
    /\ ret.op = "addProduction"
    /\ ~ret.threw
    /\ ret.arg[1] = <<" ", "A">>
    /\ \E k \in 3..Len(rightsOf(rg, sA)) :
          /\ rightsOf(rg, sA)[k] = <<"a", "b", "c">>
          /\ rightsOf(rg, sA)[k - 1] = <<"a", "b", "c">>
    /\ Cardinality(leftsOf(rg)) > 1

-----------------------------------------------------------------------------
(* Properties of toFiniteAutomaton and validate together                   *)

emptyProduction(production) == production = <<EPS>> \/ production = <<>>

\* validate() pushes an error for the production
flagged(G, pair) == productionErrors(G, <<pair>>, 1) # <<>>

\* the transition a production A -> a or A -> aB stands for
transitionOf(pair) ==
    <<pair[1], <<pair[2][1]>>,
      IF Len(pair[2]) = 1 THEN finalState ELSE Tail(pair[2])>>

\* the productions that are neither ε/empty nor flagged by validate()
contributing(G) ==
    {pair \in range(productionPairs(G.productions)) :
        ~emptyProduction(pair[2]) /\ ~flagged(G, pair)}

\* C32: a stored production contributes a transition to the result of
\* toFiniteAutomaton() if and only if it is not an ε/empty production and
\* validate() reports no error for it: the transitions of the result are
\* those of such productions, each of them retrievable; a grammar whose
\* productions are all ε/empty or flagged converts without failing when its
\* start symbol is set.
C32_AgreeWithValidate ==
    [][ret'.op = "toFiniteAutomaton" =>
          /\ ~ret'.threw =>
                /\ \A pair \in contributing(rg) :
                      LET t == transitionOf(pair) IN
                      retrievable(afd', t[1], t[2], t[3])
                /\ \A e \in range(afd'.transitions) :
                      \E pair \in contributing(rg) :
                          transitionOf(pair) = <<e.from, e.symbol, e.to>>
          /\ (contributing(rg) = {} /\ rg.startSymbol \in rg.nonTerminals) =>
                ~ret'.threw]_vars

-----------------------------------------------------------------------------
(* addTransition on an automaton with states and alphabet, the arguments   *)
(* kept with the outcome                                                   *)

\* state names and symbols given to addTransition: known and unknown ones,
\* some with spaces around, the empty name
TableNames == {q0, <<" ", "q", "1">>, Empty}
TableSymbols == {sa, <<"b", " ">>, <<"c">>}

InitTable ==
    /\ \E states \in {<<q0, q1>>, <<q0, Empty>>}, symbols \in SymbolLists :
            fa = setAlphabet(setStates(FiniteAutomaton(<<"X">>), states), symbols)
    /\ ret = Outcome("new", Return(Null, Null))
    /\ lastAdded = {}
    /\ runs = 0
    /\ rg = None
    /\ afd = None
    /\ parser = AutomataParser
    /\ parsed = None
    /\ heap = <<>>
    /\ held = None

AddTransitionTo ==
    \E fromState \in TableNames, symbol \in TableSymbols, toState \in TableNames :
        LET r == addTransition(fa, fromState, symbol, toState) IN
        /\ Len(r.obj.transitions) <= MaxTransitions
        /\ fa' = r.obj
        /\ ret' = OutcomeOn("addTransition", <<fromState, symbol, toState>>, r)
        /\ UNCHANGED <<lastAdded, runs, grammarSide, parserSide, heapSide>>

NextTable ==
    \/ AddTransitionTo
    \/ SetStates

SpecTable == InitTable /\ [][NextTable]_vars

-----------------------------------------------------------------------------
(* Properties of addTransition                                             *)

\* the entries of the table for pairs other than (from, sym)
otherEntries(A, from, sym) ==
    {e \in range(A.transitions) : ~(e.from = from /\ e.symbol = sym)}

\* C33: addTransition(from, symbol, to) fails if and only if trimmed from or
\* to is not in the current states or trimmed symbol is not in the current
\* alphabet; a failing call leaves the automaton, its table included, as it
\* was; a succeeding call makes `to` the one target of (from, symbol) and
\* changes no other entry of the table and nothing else of the automaton.
C33_AddTransition ==
    [][ret'.op = "addTransition" =>
          LET from == trim(ret'.arg[1])
              sym == trim(ret'.arg[2])
              to == trim(ret'.arg[3])
          IN /\ ret'.threw <=>
                    (from \notin fa.states \/ to \notin fa.states \/ sym \notin fa.alphabet)
             /\ ret'.threw => fa' = fa
             /\ ~ret'.threw =>
                  /\ retrievable(fa', from, sym, to)
                  /\ Cardinality({i \in 1..Len(fa'.transitions) :
                                    /\ fa'.transitions[i].from = from
                                    /\ fa'.transitions[i].symbol = sym}) = 1
                  /\ otherEntries(fa', from, sym) = otherEntries(fa, from, sym)
                  /\ fa' = [fa EXCEPT !.transitions = fa'.transitions]]_vars

\* an existing target replaced, another entry of the table kept, the names
\* given with spaces around
C33_Witness ==
    /\ ret.op = "addTransition"
    /\ ~ret.threw
    /\ ret.warned = 1
    /\ ret.arg[3] = <<" ", "q", "1">>
    /\ otherEntries(fa, trim(ret.arg[1]), trim(ret.arg[2])) # {}

-----------------------------------------------------------------------------
(* Execution traces in memory: the array of the automaton and the arrays   *)
(* of the results a caller holds.  heap is the sequence of the arrays       *)
(* created so far; held.executionPath is the address of the automaton's     *)
(* array, held.paths the addresses of the paths of the results returned.    *)
(* The step objects are written by no code after their creation and are     *)
(* kept as values.                                                          *)

MaxCells == 5

\* result.path = this.executionPath, without the copy
sharePath(H, a) == [heap |-> H, path |-> a]

\* result.path = [...this.executionPath]: a new array with the same steps
spreadPath(H, a) == [heap |-> Append(H, H[a]), path |-> Len(H) + 1]

\* reset(): this.executionPath = [] is a new array, step 0 pushed into it
resetAt(H, A) ==
    [heap |-> Append(H, reset(A).executionPath), executionPath |-> Len(H) + 1,
     obj |-> reset(A)]

\* processSymbol(): the step is pushed into the array of the automaton
processSymbolAt(H, a, A, symbol) ==
    LET r == processSymbol(A, symbol) IN
    [heap |-> [H EXCEPT ![a] = r.obj.executionPath], result |-> r]

\* recognizeWord(): reset, the steps pushed by processSymbol, then the path
\* of the result: the copy made at the two returns of the try block, or the
\* empty array of the result literal when processSymbol has thrown
recognizeWordAt(H, A, word) ==
    LET r == recognizeWord(A, word)
        H1 == Append(H, r.obj.executionPath)
        a == Len(H1)
        p == IF r.value.error.kind = "NoInicializado"
             THEN [heap |-> Append(H1, <<>>), path |-> Len(H1) + 1]
             ELSE spreadPath(H1, a)
    IN [heap |-> p.heap, executionPath |-> a, path |-> p.path, result |-> r]

InitTrace ==
    /\ \E initial \in {Null, q0},
          targets \in [1..Len(RunPairs) -> RunNames \cup {Null}] :
            fa = defined(<<q0, Empty>>, <<sa, sb>>, initial, <<q0>>,
                         triplesOf(RunPairs, targets, 1), Null)
    /\ heap = <<<<>>>>
    /\ held = [executionPath |-> 1, paths |-> <<>>]
    /\ ret = Outcome("new", Return(Null, Null))
    /\ lastAdded = {}
    /\ runs = 0
    /\ rg = None
    /\ afd = None
    /\ parser = AutomataParser
    /\ parsed = None

ResetAt ==
    LET r == resetAt(heap, fa) IN
    /\ Len(heap) < MaxCells
    /\ fa' = r.obj
    /\ heap' = r.heap
    /\ held' = [held EXCEPT !.executionPath = r.executionPath]
    /\ ret' = Outcome("reset", Return(Null, Null))
    /\ UNCHANGED <<lastAdded, runs, grammarSide, parserSide>>

ProcessSymbolAt ==
    \E c \in Chars :
        LET r == processSymbolAt(heap, held.executionPath, fa, <<c>>) IN
        /\ Len(fa.executionPath) <= MaxWordLen
        /\ fa' = r.result.obj
        /\ heap' = r.heap
        /\ ret' = OutcomeOn("processSymbol", <<c>>, r.result)
        /\ UNCHANGED <<held, lastAdded, runs, grammarSide, parserSide>>

RecognizeWordAt ==
    \E word \in Words :
        LET r == recognizeWordAt(heap, fa, word) IN
        /\ Len(heap) + 2 <= MaxCells
        /\ fa' = r.result.obj
        /\ heap' = r.heap
        /\ held' = [executionPath |-> r.executionPath,
                    paths |-> Append(held.paths, r.path)]
        /\ ret' = Outcome("recognizeWord", r.result)
        /\ UNCHANGED <<lastAdded, runs, grammarSide, parserSide>>

NextTrace ==
    \/ ResetAt
    \/ ProcessSymbolAt
    \/ RecognizeWordAt

SpecTrace == InitTrace /\ [][NextTrace]_vars

-----------------------------------------------------------------------------
(* Properties of the recognition traces                                    *)

\* C34: the path of a result returned by recognizeWord is not changed by any
\* later reset, processSymbol or recognizeWord call on the same automaton,
\* and after a recognizeWord call the execution trace of the automaton
\* equals the path of the result of that call, with the steps of that run
\* only.
C34_TracesAreValues ==
    [][/\ \A i \in 1..Len(held.paths) : heap'[held.paths[i]] = heap[held.paths[i]]
       /\ ret'.op = "recognizeWord" =>
            /\ heap'[held'.executionPath] = heap'[held'.paths[Len(held'.paths)]]
            /\ Len(heap'[held'.executionPath]) <= Len(ret'.value.word) + 1]_vars

-----------------------------------------------------------------------------
(* setFinalStates on an automaton with states, the argument kept with the  *)
(* outcome                                                                 *)

q2 == <<"q", "2">>

\* arrays given to setFinalStates: known and unknown names, names with
\* spaces around, a repeated name, the empty name, the empty array
FinalNameLists ==
    {<<>>, <<q0>>, <<<<" ", "q", "1">>>>, <<q0, q1>>, <<q1, q2>>, <<q2, q0>>,
     <<Empty>>, <<q1, q0, q1>>}

InitFinals ==
    /\ \E states \in {<<q0, q1>>, <<q0, Empty>>, <<>>},
          symbols \in SymbolLists \cup {<<>>} :
            fa = setAlphabet(setStates(FiniteAutomaton(<<"X">>), states), symbols)
    /\ ret = Outcome("new", Return(Null, Null))
    /\ lastAdded = {}
    /\ runs = 0
    /\ rg = None
    /\ afd = None
    /\ parser = AutomataParser
    /\ parsed = None
    /\ heap = <<>>
    /\ held = None

SetFinalStatesTo ==
    \E states \in FinalNameLists :
        LET r == setFinalStates(fa, states) IN
        /\ fa' = r.obj
        /\ ret' = OutcomeOn("setFinalStates", states, r)
        /\ UNCHANGED <<lastAdded, runs, grammarSide, parserSide, heapSide>>

NextFinals ==
    \/ SetFinalStatesTo
    \/ SetStates

SpecFinals == InitFinals /\ [][NextFinals]_vars

-----------------------------------------------------------------------------
(* Properties of setFinalStates                                            *)

trimmedNames(names) == {trim(names[i]) : i \in 1..Len(names)}

\* C35: setFinalStates(names) fails if and only if some trimmed name is not
\* in the current states; on success finalStates is exactly the set of the
\* trimmed names, and on failure finalStates is left as it was before the
\* call.
C35_SetFinalStates ==
    [][ret'.op = "setFinalStates" =>
          /\ ret'.threw <=> ~(trimmedNames(ret'.arg) \subseteq fa.states)
          /\ ~ret'.threw => fa'.finalStates = trimmedNames(ret'.arg)
          /\ ret'.threw => fa'.finalStates = fa.finalStates]_vars

-----------------------------------------------------------------------------
(* Properties of the conversions: validity of the grammar                  *)

\* C36: the grammar toRegularGrammar() returns for an automaton that passes
\* validate() and has at least one transition passes the validate() of
\* RegularGrammar (isValid = true), whatever state names and symbols the
\* automaton setters have accepted.
C36_GrammarValid ==
    (/\ ret.op = "toRegularGrammar"
     /\ ~ret.threw
     /\ validate(fa).isValid
     /\ Len(getTransitionsArray(fa)) >= 1) =>
        validateGrammar(rg).isValid

-----------------------------------------------------------------------------
(* The initial state: setInitialState followed by validate, reset and      *)
(* processSymbol                                                           *)

\* names given to setInitialState: known ones, the empty name, an unknown one
InitialNames == {q0, <<" ">>, Empty, q2}

InitInitial ==
    /\ \E targets \in [1..Len(RunPairs) -> RunNames \cup {Null}] :
            fa = defined(<<q0, Empty>>, <<sa, sb>>, Null, <<q0>>,
                         triplesOf(RunPairs, targets, 1), Null)
    /\ ret = Outcome("new", Return(Null, Null))
    /\ lastAdded = {}
    /\ runs = 0
    /\ rg = None
    /\ afd = None
    /\ parser = AutomataParser
    /\ parsed = None
    /\ heap = <<>>
    /\ held = None

SetInitialStateTo ==
    \E state \in InitialNames :
        LET r == setInitialState(fa, state) IN
        /\ fa' = r.obj
        /\ ret' = OutcomeOn("setInitialState", state, r)
        /\ UNCHANGED <<lastAdded, runs, grammarSide, parserSide, heapSide>>

NextInitial ==
    \/ SetInitialStateTo
    \/ Validate
    \/ Reset
    \/ ProcessSymbol

SpecInitial == InitInitial /\ [][NextInitial]_vars

-----------------------------------------------------------------------------
(* Properties of the initial state                                         *)

\* C37: once setInitialState(s) has succeeded, for every name s that
\* setStates accepts, the empty name included, the automaton has an initial
\* state: validate() reports no missing initial state, reset() leaves
\* currentState = s with a trace of one step, and a processSymbol that
\* follows the reset does not fail.
C37_InitialStateCounts ==
    [][/\ (ret'.op = "setInitialState" /\ ~ret'.threw) =>
             fa'.initialState = trim(ret'.arg)
       /\ fa.initialState # Null =>
            /\ ret'.op = "validate" =>
                  \A i \in 1..Len(ret'.value.errors) :
                      ret'.value.errors[i].kind # "SinEstadoInicial"
            /\ ret'.op = "reset" =>
                  /\ fa'.currentState = fa.initialState
                  /\ fa'.executionPath = <<Step(fa.initialState, Null, 0)>>
            /\ (ret.op = "reset" /\ ret'.op = "processSymbol") => ~ret'.threw]_vars

-----------------------------------------------------------------------------
(* class AutomataApp (main.js): the parser, the loaded models and the       *)
(* selected automaton.  Objects are kept by identity: heap.objects is the   *)
(* sequence of the FiniteAutomaton objects created so far, a Map of         *)
(* automata holds their addresses, and heap.maps holds the four Maps: the   *)
(* two the constructor of the application creates and the two of the        *)
(* parser.  held is the application: its fields, the file reads in flight   *)
(* and the timers set by testWord; a reference to an object is [at |-> a],  *)
(* no object None.  The DOM and the visualizer are left out: no handler     *)
(* reads them back, the fields of the events excepted, which are inputs.    *)

MaxLoads == 2
MaxTimers == 1

\* a file with the automaton X: one state, one symbol
LoadX ==
    <<"1", ":", "X", ":", "q", "0", "\n", "2", ":", "X", ":", "a", "\n", "3",
      ":", "X", ":", "q", "0", "\n", "4", ":", "X", ":", "q", "0", "\n", "5",
      ":", "X", ":", "q", "0", ",", "a", ",", "q", "0">>

\* a file with the grammar G
LoadG ==
    <<"6", ":", "G", ":", "A", "\n", "9", ":", "G", ":", "A", "-", ">", "a">>

\* a file whose second line fails, after the first has created X
LoadBad ==
    <<"1", ":", "X", ":", "q", "0", "\n", "5", ":", "X", ":", "q", "0", ",",
      "a">>

\* the files given to processFile
AppFiles ==
    {[txt |-> TRUE, content |-> LoadX],
     [txt |-> TRUE, content |-> LoadG],
     [txt |-> TRUE, content |-> LoadBad],
     [txt |-> FALSE, content |-> LoadX]}

\* the values of the select and the words of the input
AppNames == {<<"X">>, <<>>}
AppWords == {<<"a">>, <<" ">>}

\* the parser of the application as a value: its Maps with the objects in
\* place of their addresses
appParser(H) ==
    [automata |->
        [i \in 1..Len(H.maps["parser.automata"]) |->
            [key |-> H.maps["parser.automata"][i].key,
             value |-> H.objects[H.maps["parser.automata"][i].value]]],
     grammars |-> H.maps["parser.grammars"]]

\* this.parser.clear(): the two Maps of the parser are emptied in place
clearAt(H) ==
    [H EXCEPT !.maps["parser.automata"] = <<>>, !.maps["parser.grammars"] = <<>>]

\* the parser after parseFile, result r, in the heap: the automata already in
\* the Map keep their objects (and their places in the Map), each new name
\* gets a new object
placeAt(H, r) ==
    LET old == H.maps["parser.automata"]
        n == Len(old)
        new == r.obj.automata
        kept == [a \in 1..Len(H.objects) |->
                    IF \E j \in 1..n : old[j].value = a
                    THEN new[CHOOSE j \in 1..n : old[j].value = a].value
                    ELSE H.objects[a]]
        created == [k \in 1..(Len(new) - n) |-> new[n + k].value]
        entries == [j \in 1..Len(new) |->
                       [key |-> new[j].key,
                        value |-> IF j <= n THEN old[j].value
                                  ELSE Len(H.objects) + (j - n)]]
    IN [heap |-> [maps |-> [H.maps EXCEPT !["parser.automata"] = entries,
                                          !["parser.grammars"] = r.obj.grammars],
                  objects |-> kept \o created],
        result |-> r]

\* this.parser.parseFile(content) on the parser of the application
parseFileAt(H, content) ==
    CHOOSE placed \in {placeAt(H, r) : r \in {parseFile(appParser(H), content)}} :
        TRUE

\* the two parser calls of processFile without the clear()
parseWithoutClear(H, content) == parseFileAt(H, content)

\* processFile after the await: this.parser.clear(); this.parser.parseFile(content)
clearAndParse(H, content) == parseFileAt(clearAt(H), content)

\* the automaton objects a Map of automata holds
heldIn(H, map) == {H.maps[map][i].value : i \in 1..Len(H.maps[map])}

addressOf(H, map, name) ==
    H.maps[map][CHOOSE i \in 1..Len(H.maps[map]) : H.maps[map][i].key = name].value

InitApp ==
    /\ heap = [maps |-> [m \in {"app.automata", "app.grammars",
                                "parser.automata", "parser.grammars"} |-> <<>>],
               objects |-> <<>>]
    /\ held = [currentAutomaton |-> None,
               loadedAutomata |-> "app.automata",
               loadedGrammars |-> "app.grammars",
               reading |-> {},
               timers |-> <<>>,
               content |-> Null,
               loads |-> 0,
               completed |-> <<>>]
    /\ ret = Outcome("new", Return(Null, Null))
    /\ fa = FiniteAutomaton(<<"X">>)
    /\ lastAdded = {}
    /\ runs = 0
    /\ rg = None
    /\ afd = None
    /\ parser = AutomataParser
    /\ parsed = None

\* processFile up to the await: the name is tested, the read is started
ProcessFile ==
    \E file \in AppFiles :
        /\ held.loads < MaxLoads
        /\ IF ~file.txt
           THEN /\ held' = [held EXCEPT !.loads = @ + 1]
                /\ ret' = Outcome("processFile",
                                  Return(Null, Message("NoEsTxt", <<>>, <<>>)))
           ELSE /\ held' = [held EXCEPT
                              !.loads = @ + 1,
                              !.reading = @ \cup {[id |-> held.loads + 1,
                                                   content |-> file.content]}]
                /\ ret' = Outcome("readFile", Return(Null, Null))
        /\ UNCHANGED <<heap, fa, lastAdded, runs, grammarSide, parserSide>>

\* reader.onload of one of the reads in flight, and processFile from the
\* await to its end
ReadCompletes ==
    \E load \in held.reading :
        \E r \in {clearAndParse(heap, load.content)} :
        /\ heap' = r.heap
        /\ held' = IF r.result.threw
                   THEN [held EXCEPT !.reading = @ \ {load},
                                     !.content = load.content,
                                     !.completed = Append(@, load.id)]
                   ELSE [held EXCEPT !.reading = @ \ {load},
                                     !.content = load.content,
                                     !.completed = Append(@, load.id),
                                     !.loadedAutomata = "parser.automata",
                                     !.loadedGrammars = "parser.grammars"]
        /\ ret' = Outcome("processFile", [r.result EXCEPT !.obj = Null, !.value = Null])
        /\ UNCHANGED <<fa, lastAdded, runs, grammarSide, parserSide>>

\* reader.onerror: the await throws and the catch block shows the error
ReadFails ==
    \E load \in held.reading :
        /\ held' = [held EXCEPT !.reading = @ \ {load}]
        /\ ret' = Outcome("processFile",
                          Throw(Null, Message("ErrorAlLeer", <<>>, <<>>)))
        /\ UNCHANGED <<heap, fa, lastAdded, runs, grammarSide, parserSide>>

ClearFile ==
    /\ heap' = [clearAt(heap) EXCEPT !.maps[held.loadedAutomata] = <<>>,
                                     !.maps[held.loadedGrammars] = <<>>]
    /\ held' = [held EXCEPT !.currentAutomaton = None, !.content = Null]
    /\ ret' = Outcome("clearFile", Return(Null, Null))
    /\ UNCHANGED <<fa, lastAdded, runs, grammarSide, parserSide>>

HandleAutomataSelect ==
    \E selectedName \in AppNames :
        /\ held' = [held EXCEPT !.currentAutomaton =
                      IF /\ selectedName # <<>>
                         /\ mapHas(heap.maps[held.loadedAutomata], selectedName)
                      THEN [at |-> addressOf(heap, held.loadedAutomata, selectedName)]
                      ELSE None]
        /\ ret' = OutcomeOn("handleAutomataSelect", selectedName, Return(Null, Null))
        /\ UNCHANGED <<heap, fa, lastAdded, runs, grammarSide, parserSide>>

ConvertAfdToGr ==
    \E selectedName \in AppNames :
        IF selectedName = <<>> \/ ~mapHas(heap.maps[held.loadedAutomata], selectedName)
        THEN /\ ret' = OutcomeOn("convertAfdToGr", selectedName,
                                 Return(Null, Message("SeleccionaValido", <<>>, <<>>)))
             /\ UNCHANGED <<heap, held, fa, lastAdded, runs, grammarSide, parserSide>>
        ELSE LET a == addressOf(heap, held.loadedAutomata, selectedName)
                 r == toRegularGrammar(heap.objects[a])
             IN /\ heap' = IF r.threw THEN heap
                           ELSE [heap EXCEPT !.maps[held.loadedGrammars] =
                                    mapSet(@, r.value.name, r.value)]
                /\ ret' = OutcomeOn("convertAfdToGr", selectedName,
                                    [r EXCEPT !.obj = Null, !.value = Null])
                /\ UNCHANGED <<held, fa, lastAdded, runs, grammarSide, parserSide>>

\* testWord up to setTimeout: the timer keeps the word; `selected` records
\* the automaton that was selected at that moment
TestWord ==
    \E input \in AppWords :
        LET word == trim(input) IN
        /\ Len(held.timers) < MaxTimers
        /\ IF held.currentAutomaton = None
           THEN /\ ret' = OutcomeOn("testWord", input,
                                    Return(Null, Message("SeleccionaPrimero", <<>>, <<>>)))
                /\ UNCHANGED held
           ELSE IF word = <<>>
           THEN /\ ret' = OutcomeOn("testWord", input,
                                    Return(Null, Message("IngresaPalabra", <<>>, <<>>)))
                /\ UNCHANGED held
           ELSE /\ ret' = OutcomeOn("testWord", input, Return(Null, Null))
                /\ held' = [held EXCEPT !.timers =
                              Append(@, [word |-> word,
                                         selected |-> held.currentAutomaton])]
        /\ UNCHANGED <<heap, fa, lastAdded, runs, grammarSide, parserSide>>

\* the callback of the timer: this.currentAutomaton is read when it runs
TimerFires ==
    /\ held.timers # <<>>
    /\ LET timer == Head(held.timers) IN
       /\ held' = [held EXCEPT !.timers = Tail(@)]
       /\ IF held.currentAutomaton = None
          THEN /\ ret' = OutcomeOn("timer", timer,
                                   Throw(Null, Message("TypeError", <<>>, <<>>)))
               /\ UNCHANGED heap
          ELSE LET r == recognizeWord(heap.objects[held.currentAutomaton.at], timer.word)
               IN /\ heap' = [heap EXCEPT !.objects[held.currentAutomaton.at] = r.obj]
                  /\ ret' = OutcomeOn("timer", timer, [r EXCEPT !.obj = Null])
    /\ UNCHANGED <<fa, lastAdded, runs, grammarSide, parserSide>>

NextApp ==
    \/ ProcessFile
    \/ ReadCompletes
    \/ ReadFails
    \/ ClearFile
    \/ HandleAutomataSelect
    \/ ConvertAfdToGr
    \/ TestWord
    \/ TimerFires

SpecApp == InitApp /\ [][NextApp]_vars

-----------------------------------------------------------------------------
(* Properties of the application                                           *)

\* C38: the callback of the timer set by testWord never runs while
\* currentAutomaton is null, whatever clearFile, de-selecting
\* handleAutomataSelect or file load comes between testWord and the
\* callback, and the word is recognized by the automaton that was selected
\* when testWord was invoked.
C38_TimerHasAutomaton ==
    [][ret'.op = "timer" =>
          /\ held.currentAutomaton # None
          /\ ~ret'.threw
          /\ held.currentAutomaton = ret'.arg.selected]_vars

\* the models the parser holds are those of one parseFile of `content` on an
\* empty parser, the automata in any state of recognition
fromOneFile(P, content) ==
    LET expected == IF content = Null THEN AutomataParser
                    ELSE parseFile(AutomataParser, content).obj
    IN /\ Len(P.automata) = Len(expected.automata)
       /\ \A i \in 1..Len(P.automata) :
             /\ P.automata[i].key = expected.automata[i].key
             /\ definition(P.automata[i].value) = definition(expected.automata[i].value)
       /\ \A i \in 1..Len(expected.grammars) : expected.grammars[i] \in range(P.grammars)
       /\ \A i \in 1..Len(P.grammars) :
             \/ P.grammars[i] \in range(expected.grammars)
             \/ \E j \in 1..Len(P.automata) :
                   LET r == toRegularGrammar(P.automata[j].value) IN
                   /\ ~r.threw
                   /\ P.grammars[i] = [key |-> r.value.name, value |-> r.value]

\* C39: file loads never mix: whatever the number of processFile calls in
\* flight and the order in which their reads complete, the automata and the
\* grammars of the parser are at every moment those of a single file, the
\* one whose read completed last (with the grammars converted from its
\* automata), or none after clearFile.
C39_LoadsNeverMix == fromOneFile(appParser(heap), held.content)

\* two loads in flight at once, the read of the second one completed first,
\* both files with models
C39_Witness ==
    /\ held.completed = <<2, 1>>
    /\ ret.op = "processFile"
    /\ ~ret.threw
    /\ Len(heap.objects) = 2
    /\ heap.maps["parser.automata"] # <<>>

\* C40: after any sequence of file loads, selections, conversions and
\* clearFile calls, currentAutomaton is null or one of the automaton objects
\* that loadedAutomata holds.
C40_SelectionInvariant ==
    \/ held.currentAutomaton = None
    \/ held.currentAutomaton.at \in heldIn(heap, held.loadedAutomata)

====
